---- MODULE Spec2Model ----
(***************************************************************************)
(* A model of the pinecone router's peer link: the per-peer reader, writer *)
(* and announcer goroutines of a Peer, Peer.start and Peer.stop, the       *)
(* announcement slot with its timeout, and the dispatch of received frames *)
(* onto the destination peers' queues.                                     *)
(*                                                                         *)
(* Every piece of peer state is a function of the port.  Each goroutine is *)
(* a program counter per port; one action is one atomic step of it (one    *)
(* atomic operation, one channel operation, or one run between two         *)
(* suspension points).  Several specifications share the actions: each     *)
(* starts from its own initial states and schedules the goroutines its     *)
(* claims are about.                                                       *)
(***************************************************************************)
EXTENDS Integers, Sequences, FiniteSets, TLC

(***************************************************************************)
(* Bounds of the model.                                                    *)
(***************************************************************************)
\* Ports are 0 .. MaxPort; port 0 is the local port.
MaxPort == 2
\* Capacity of the announce channel of a peer (0: unbuffered).
AnnounceCap == 0
\* Capacity of the protoOut FIFO and of the trafficOut LIFO.
ProtoCap == 2
TrafficCap == 2
\* Longest list of candidate ports getNextHops returns.
MaxHops == 2
\* Longest run of garbage bytes in front of a frame on the wire.
MaxGarbage == 3
\* The clock runs from 0 to MaxTime seconds.
MaxTime == 46
\* How often one peer slot is started.
MaxStarts == 2

(***************************************************************************)
(* Program constants.                                                      *)
(***************************************************************************)
\* announcementTimeout, in seconds: time.Since(at) >= announcementTimeout makes
\* a stored announcement stale.
announcementTimeout == 45
\* ed25519.PublicKeySize
PublicKeySize == 32
\* types.Version0
Version0 == 0

Ports == 0 .. MaxPort
RemotePorts == 1 .. MaxPort

\* types.FrameMagicBytes: "pine"
FrameMagicBytes == <<112, 105, 110, 101>>

VARIABLES
    started,        \* Peer.started (atomic.Bool)
    alive,          \* Peer.alive (atomic.Bool)
    cancelled,      \* Peer.context is done
    connClosed,     \* Peer.conn has been closed locally
    connState,      \* the remote end: "ok", "eof" or "reset"
    stream,         \* the bytes the remote has sent and the reader has not consumed
    input,          \* history: what the remote sends on the connection, in its parts
    announce,       \* Peer.announce: the frames buffered in the channel
    protoOut,       \* Peer.protoOut: oldest frame first
    trafficOut,     \* Peer.trafficOut: oldest frame first, the top is the last
    statistics,     \* Peer.statistics
    announcement,   \* Peer.announcement (NoAnn: nil)
    coords,         \* Peer.coords (NoCoords: nil)
    public,         \* Peer.public
    treeRoot,       \* Router.tree.Root(): the node's current root announcement
    advLock,        \* the holders of Router.tree.advertise.L (NoPort: free)
    now,            \* the clock
    readerPc,       \* position of Peer.reader
    cur,            \* the frame the reader is dispatching
    hops,           \* the candidate ports still to try for cur
    sent,           \* the reader's local "sent"
    writerPc,       \* position of Peer.writer
    wframe,         \* the frame the writer is sending
    announcerPc,    \* position of Peer.announcer
    starterPc,      \* position of the caller of Peer.start
    discPc,         \* position of each caller inside Router.Disconnect / Peer.stop
    nStart,         \* history: successful starts
    nStopOk,        \* history: stop calls that won the CAS
    nStopErr,       \* history: stop calls that returned "already stopped"
    nCancel,        \* history: calls of Peer.cancel
    nClose,         \* history: calls of Peer.conn.Close
    nDiscard,       \* history: one-byte discards of the reader since the last frame
    last,           \* history: the last operation that was recorded
    dht,            \* Router.state: _table, _ascending, _descending and their entries
    held,           \* the values a caller of DHTInfo and of Peers holds
    net,            \* a network of routers: each node's tree state and the links
    tried,          \* history: the candidates the reader has gone through for its frame
    orphans,        \* the goroutines of earlier starts of a slot that still run
    peertype,       \* Peer.peertype
    sim             \* the simulator: its nodes, its wires and the calls under way

peerVars == <<started, alive, cancelled, connClosed, connState, stream, input>>
queueVars == <<announce, protoOut, trafficOut, statistics>>
annVars == <<announcement, coords, public, treeRoot, advLock, now>>
readerVars == <<readerPc, cur, hops, sent>>
writerVars == <<writerPc, wframe>>
announcerVars == <<announcerPc, starterPc>>
histVars == <<nStart, nStopOk, nStopErr, nCancel, nClose, nDiscard>>
dhtVars == <<dht, held, net>>
simVars == <<tried, orphans, peertype, sim>>
vars == <<peerVars, queueVars, annVars, readerVars, writerVars, announcerVars,
          discPc, histVars, last, dhtVars, simVars>>

\* Nobody holds the lock.
NoPort == {}
NoFrame == [kind |-> "none"]
NoAnn == [kind |-> "nil"]
NoCoords == <<-1>>
NoEvent == [op |-> "none"]
\* A nil *virtualSnakeEntry; the state with an empty table; a caller that
\* holds nothing.
NilEntry == 0
EmptyDHT == [heap |-> <<>>, table |-> <<>>, asc |-> NilEntry, desc |-> NilEntry]
NoHeld == [dht |-> <<>>, peers |-> <<>>]
\* No network: the router is looked at on its own.
NoNet == [nodes |-> {}]
\* The goroutines of a peer, and a slot none of whose earlier goroutines runs.
Tasks == {"reader", "writer", "announcer"}
NoOrphans == [p \in Ports |-> [t \in Tasks |-> 0]]
\* The peer types, in the order of their declaration (iota).
PeerTypeMulticast == 0
PeerTypeBluetooth == 1
PeerTypeRemote == 2
\* No simulator: the router is looked at on its own.
NoSim == [nodes |-> {}]

(***************************************************************************)
(* Frames and the wire.                                                    *)
(***************************************************************************)
\* The router's own key (Router.public) and the keys of remote nodes.
RouterKey == 5
Keys == {3, 5, 9}

\* types.FrameType, by the byte on the wire.
FrameTypeOf(b) ==
    CASE b = 0 -> "STP"
      [] b = 1 -> "Source"
      [] b = 2 -> "Greedy"
      [] b = 3 -> "VirtualSnakeBootstrap"
      [] b = 4 -> "VirtualSnakeBootstrapACK"
      [] b = 5 -> "VirtualSnakeSetup"
      [] b = 6 -> "VirtualSnakeTeardown"
      [] b = 7 -> "VirtualSnake"
      [] b = 8 -> "VirtualSnakePathfind"
      [] b = 9 -> "DHTRequest"
      [] b = 10 -> "DHTResponse"
      [] b = 11 -> "Pathfind"
      [] OTHER -> "Unknown"

PathfindTypes == {"Pathfind", "VirtualSnakePathfind"}
ProtoTypes == {"DHTRequest", "DHTResponse", "VirtualSnakeBootstrap",
               "VirtualSnakeBootstrapACK", "VirtualSnakeSetup",
               "VirtualSnakeTeardown"}
TrafficTypes == {"Greedy", "Source", "VirtualSnake"}

Frame(v, t, pl) == [kind |-> "frame", version |-> v, type |-> t, payload |-> pl]

\* binary.BigEndian.Uint16
Uint16(hi, lo) == hi * 256 + lo

SubSeqFrom(s, i) == SubSeq(s, i, Len(s))

\* A Discard that skips one byte more than it is asked to.
DiscardOneMore(s, n) == SubSeqFrom(s, n + 2)

\* bufio.Reader.Discard(n) on the unread bytes s of the connection.
Discard(s, n) == SubSeqFrom(s, n + 1)

\* The number of bytes the reader reads for the frame whose first 12 bytes
\* are h (h[1..4] is the magic, the code's header[k] is h[k + 5]).
Expecting(h) ==
    LET t == FrameTypeOf(h[6])
        f1 == Uint16(h[7], h[8])
        f2 == Uint16(h[9], h[10])
        f3 == Uint16(h[11], h[12])
    IN  CASE t = "VirtualSnakeBootstrap" -> 10 + f2 + f1 + PublicKeySize
          [] t = "VirtualSnakeBootstrapACK" -> 12 + f2 + f3 + f1 + (PublicKeySize * 2)
          [] t = "VirtualSnakeSetup" -> 10 + f2 + (PublicKeySize * 2) + f1
          [] t = "VirtualSnakeTeardown" -> 8 + f1 + PublicKeySize
          [] t \in {"VirtualSnake", "VirtualSnakePathfind"} -> 8 + f1 + (PublicKeySize * 2)
          [] OTHER -> 12 + f1 + f2 + f3

\* A run of varint-encoded ports is well formed when its last byte ends a
\* varint (no continuation bit).
CoordsWellFormed(bs) == Len(bs) = 0 \/ bs[Len(bs)] < 128

\* Frame.UnmarshalBinary on the bytes the reader read, for the layout the
\* reader's length computation assumes: magic, version, type, then for the
\* coordinate-routed types three lengths and the destination, the source and
\* the payload.
UnmarshalBinary(buf) ==
    IF Len(buf) < 12 \/ SubSeq(buf, 1, 4) # FrameMagicBytes
    THEN [ok |-> FALSE, frame |-> NoFrame]
    ELSE LET t == FrameTypeOf(buf[6])
             dl == Uint16(buf[7], buf[8])
             sl == Uint16(buf[9], buf[10])
             pl == Uint16(buf[11], buf[12])
         IN  IF t \in {"VirtualSnakeBootstrap", "VirtualSnakeBootstrapACK",
                       "VirtualSnakeSetup", "VirtualSnakeTeardown",
                       "VirtualSnake", "VirtualSnakePathfind"}
             THEN [ok |-> Len(buf) >= Expecting(buf),
                   frame |-> Frame(buf[5], t, SubSeqFrom(buf, 13))]
             ELSE IF Len(buf) < 12 + dl + sl + pl
                     \/ ~CoordsWellFormed(SubSeq(buf, 13, 12 + dl))
                     \/ ~CoordsWellFormed(SubSeq(buf, 13 + dl, 12 + dl + sl))
                  THEN [ok |-> FALSE, frame |-> NoFrame]
                  ELSE [ok |-> TRUE,
                        frame |-> Frame(buf[5], t,
                                        SubSeq(buf, 13 + dl + sl, 12 + dl + sl + pl))]

\* The bytes of a coordinate-routed frame as the remote writes them.
WireFrame(v, tb, dst, src, pl) ==
    FrameMagicBytes \o <<v, tb>> \o <<0, Len(dst), 0, Len(src), 0, Len(pl)>>
        \o dst \o src \o pl

(***************************************************************************)
(* The queues (router/queuefifo.go, router/queuelifo.go).                  *)
(***************************************************************************)
\* fifoQueue.push: fails when the queue is full, the queue is left as it is.
FifoPush(q, f) ==
    IF Len(q) >= ProtoCap THEN [ok |-> FALSE, q |-> q]
    ELSE [ok |-> TRUE, q |-> Append(q, f)]

\* fifoQueue.pop: the oldest frame.
FifoPop(q) == [frame |-> Head(q), q |-> Tail(q)]

\* lifoQueue.push: when the queue is full the oldest frame is evicted; the
\* new frame is the top.
LifoPush(q, f) ==
    IF Len(q) >= TrafficCap THEN [ok |-> TRUE, q |-> Append(Tail(q), f)]
    ELSE [ok |-> TRUE, q |-> Append(q, f)]

\* lifoQueue.pop: the newest frame.
LifoPop(q) == [frame |-> q[Len(q)], q |-> SubSeq(q, 1, Len(q) - 1)]

ZeroStatistics ==
    [txProtoSuccessful |-> 0, txProtoDropped |-> 0, txTrafficSuccessful |-> 0,
     txTrafficDropped |-> 0, rxDroppedNoDestination |-> 0]

(***************************************************************************)
(* Announcements.                                                          *)
(***************************************************************************)
Sig(port, key) == [port |-> port, key |-> key]
Ann(root, seq, sigs) == [kind |-> "ann", root |-> root, seq |-> seq, sigs |-> sigs]

\* The root announcements the tree can hold: the node is root itself, or it
\* has adopted the announcement of the neighbour with key 9.
OwnRoot == Ann(RouterKey, 1, <<>>)
Roots == {OwnRoot, Ann(9, 1, <<Sig(1, 9)>>)}

\* The announcements a remote can send to the peer with key 9 or 3.
RemoteAnns ==
    {Ann(9, 1, <<Sig(1, 9)>>), Ann(9, 2, <<Sig(2, 9), Sig(1, 3)>>),
     Ann(9, 3, <<>>)}

\* SwitchAnnouncement.PeerCoords: the ports signed before the peer's own
\* signature; an error when the peer has not signed the announcement.
PeerCoords(ann, key) ==
    LET idx == {i \in 1 .. Len(ann.sigs) : ann.sigs[i].key = key}
    IN  IF idx = {} THEN [ok |-> FALSE, coords |-> NoCoords]
        ELSE LET first == CHOOSE i \in idx : \A j \in idx : i <= j
             IN  [ok |-> TRUE,
                  coords |-> [i \in 1 .. first - 1 |-> ann.sigs[i].port]]

\* rootAnnouncementWithTime
AnnWithTime(ann, at) == [kind |-> "ann", ann |-> ann, at |-> at]

\* A lastAnnouncement that still returns an announcement whose age is the
\* timeout.
lastAnnouncementLate(p) ==
    CASE ~started[p] -> NoAnn
      [] announcement[p] # NoAnn /\ now - announcement[p].at > announcementTimeout -> NoAnn
      [] OTHER -> announcement[p]

\* Peer.lastAnnouncement
lastAnnouncement(p) ==
    CASE ~started[p] -> NoAnn
      [] announcement[p] # NoAnn /\ now - announcement[p].at >= announcementTimeout -> NoAnn
      [] OTHER -> announcement[p]

\* Peer.SeenRecently
SeenRecently(p) == lastAnnouncement(p) # NoAnn

\* A generateAnnouncement that signs the root announcement whatever
\* signatures it holds.
generateAnnouncementUnchecked(p) ==
    IF p = 0 THEN NoFrame
    ELSE Frame(Version0, "STP",
               Ann(treeRoot.root, treeRoot.seq,
                   Append(treeRoot.sigs, Sig(p, RouterKey))))

\* Peer.generateAnnouncement: nothing for port 0 and nothing when the root
\* announcement already holds the node's signature; else the root announcement
\* signed for the port, in an STP frame.
generateAnnouncement(p) ==
    IF p = 0 THEN NoFrame
    ELSE IF \E i \in 1 .. Len(treeRoot.sigs) : treeRoot.sigs[i].key = RouterKey
         THEN NoFrame
         ELSE Frame(Version0, "STP",
                    Ann(treeRoot.root, treeRoot.seq,
                        Append(treeRoot.sigs, Sig(p, RouterKey))))


\* What is recorded of a call of generateAnnouncement by the announcer or
\* the starter of port p.
Generated(p, who) ==
    [op |-> "generate", port |-> p, by |-> who, root |-> treeRoot,
     frame |-> generateAnnouncement(p)]

(***************************************************************************)
(* The announce channel.  An entry is a frame a sender has offered; the    *)
(* first AnnounceCap entries are buffered, the senders of the others are   *)
(* blocked in their send until the writer has received their entry.        *)
(***************************************************************************)
Offer(f, who) == [frame |-> f, from |-> who]

\* The send of `who` on the announce channel of p has completed.
SendCompleted(p, who) ==
    ~\E i \in 1 .. Len(announce[p]) : i > AnnounceCap /\ announce[p][i].from = who

AnnReady(p) == announce[p] # <<>>
ProtoReady(p) == protoOut[p] # <<>>
TrafficReady(p) == trafficOut[p] # <<>>

Min(a, b) == IF a < b THEN a ELSE b

Callers == {"reader", "writer", "ext"}
\* The calls of Peer.stop that return "already stopped" are counted up to
\* MaxStopErr; external callers call Router.Disconnect until then.
MaxStopErr == 1

(***************************************************************************)
(* Peer.writer                                                             *)
(***************************************************************************)
Selects == {"sel1", "sel2", "sel3"}

\* What the writer's choice was and what was available when it was made.
Choice(p, src) ==
    [op |-> "choose", port |-> p, src |-> src, ann |-> AnnReady(p),
     proto |-> ProtoReady(p)]

\* case <-p.context.Done(): return (in each of the three selects)
WriterExit(p, k) ==
    /\ writerPc[p] = k
    /\ cancelled[p]
    /\ writerPc' = [writerPc EXCEPT ![p] = "done"]
    /\ UNCHANGED last
    /\ UNCHANGED <<peerVars, queueVars, annVars, readerVars, wframe,
                   announcerVars, discPc, histVars>>
    /\ UNCHANGED <<dhtVars, simVars>>

\* case ann := <-p.announce (in each of the three selects)
WriterTakeAnn(p, k) ==
    /\ writerPc[p] = k
    /\ AnnReady(p)
    /\ wframe' = [wframe EXCEPT ![p] = Head(announce[p]).frame]
    /\ announce' = [announce EXCEPT ![p] = Tail(@)]
    /\ writerPc' = [writerPc EXCEPT ![p] = "send"]
    /\ last' = Choice(p, "ann")
    /\ UNCHANGED <<peerVars, protoOut, trafficOut, statistics, annVars,
                   readerVars, announcerVars, discPc, histVars>>
    /\ UNCHANGED <<dhtVars, simVars>>

\* case <-p.protoOut.wait(): p.protoOut.pop() (second and third select)
WriterTakeProto(p, k) ==
    /\ writerPc[p] = k
    /\ k \in {"sel2", "sel3"}
    /\ ProtoReady(p)
    /\ wframe' = [wframe EXCEPT ![p] = FifoPop(protoOut[p]).frame]
    /\ protoOut' = [protoOut EXCEPT ![p] = FifoPop(@).q]
    /\ writerPc' = [writerPc EXCEPT ![p] = "send"]
    /\ last' = Choice(p, "proto")
    /\ UNCHANGED <<peerVars, announce, trafficOut, statistics, annVars,
                   readerVars, announcerVars, discPc, histVars>>
    /\ UNCHANGED <<dhtVars, simVars>>

\* case <-p.trafficOut.wait(): p.trafficOut.pop() (third select only)
WriterTakeTraffic(p) ==
    /\ writerPc[p] = "sel3"
    /\ TrafficReady(p)
    /\ wframe' = [wframe EXCEPT ![p] = LifoPop(trafficOut[p]).frame]
    /\ trafficOut' = [trafficOut EXCEPT ![p] = LifoPop(@).q]
    /\ writerPc' = [writerPc EXCEPT ![p] = "send"]
    /\ last' = Choice(p, "traffic")
    /\ UNCHANGED <<peerVars, announce, protoOut, statistics, annVars,
                   readerVars, announcerVars, discPc, histVars>>
    /\ UNCHANGED <<dhtVars, simVars>>

\* default: of the first select (nothing of its cases is ready)
WriterDefault1(p) ==
    /\ writerPc[p] = "sel1"
    /\ ~cancelled[p] /\ ~AnnReady(p)
    /\ writerPc' = [writerPc EXCEPT ![p] = "sel2"]
    /\ UNCHANGED last
    /\ UNCHANGED <<peerVars, queueVars, annVars, readerVars, wframe,
                   announcerVars, discPc, histVars>>
    /\ UNCHANGED <<dhtVars, simVars>>

\* default: of the second select
WriterDefault2(p) ==
    /\ writerPc[p] = "sel2"
    /\ ~cancelled[p] /\ ~AnnReady(p) /\ ~ProtoReady(p)
    /\ writerPc' = [writerPc EXCEPT ![p] = "sel3"]
    /\ UNCHANGED last
    /\ UNCHANGED <<peerVars, queueVars, annVars, readerVars, wframe,
                   announcerVars, discPc, histVars>>
    /\ UNCHANGED <<dhtVars, simVars>>

\* p.conn.Write fails on a connection that is closed or broken.
WriteFails(p) == connClosed[p] \/ connState[p] # "ok"

\* send(frame): the frame is written; on a write error the writer calls
\* Router.Disconnect and goes on with its loop.
WriterSend(p) ==
    /\ writerPc[p] = "send"
    /\ wframe' = [wframe EXCEPT ![p] = NoFrame]
    /\ IF WriteFails(p)
       THEN /\ writerPc' = [writerPc EXCEPT ![p] = "disc"]
            /\ discPc' = [discPc EXCEPT ![p]["writer"] = "cas"]
       ELSE /\ writerPc' = [writerPc EXCEPT ![p] = "sel1"]
            /\ UNCHANGED discPc
    /\ last' = [op |-> "write", port |-> p, err |-> WriteFails(p),
                disconnects |-> discPc'[p]["writer"] = "cas"]
    /\ UNCHANGED <<peerVars, queueVars, annVars, readerVars, announcerVars,
                   histVars>>
    /\ UNCHANGED <<dhtVars, simVars>>

(***************************************************************************)
(* Router.Disconnect and Peer.stop, step by step for each caller.          *)
(***************************************************************************)
\* The caller goes on after Router.Disconnect has returned: the reader
\* returns, the writer's send returns the error and its loop continues.
ResumeCaller(p, c) ==
    /\ readerPc' = IF c = "reader" THEN [readerPc EXCEPT ![p] = "done"] ELSE readerPc
    /\ writerPc' = IF c = "writer" THEN [writerPc EXCEPT ![p] = "sel1"] ELSE writerPc

\* sync.Cond.Broadcast on tree.advertise: every waiting announcer wakes up.
Broadcast ==
    [q \in Ports |-> IF announcerPc[q] = "wait" THEN "woken" ELSE announcerPc[q]]

\* A stop that does not look at started.
StopWithoutCAS(p, c) ==
    /\ discPc[p][c] = "cas"
    /\ started' = [started EXCEPT ![p] = FALSE]
    /\ nStopOk' = [nStopOk EXCEPT ![p] = @ + 1]
    /\ discPc' = [discPc EXCEPT ![p][c] = "alive"]
    /\ UNCHANGED last
    /\ UNCHANGED <<alive, cancelled, connClosed, connState, stream, input, queueVars,
                   annVars, readerVars, writerVars, announcerVars, nStart,
                   nStopErr, nCancel, nClose, nDiscard>>
    /\ UNCHANGED <<dhtVars, simVars>>

\* p.started.CAS(true, false) succeeds.
StopCASWon(p, c) ==
    /\ discPc[p][c] = "cas"
    /\ started[p]
    /\ started' = [started EXCEPT ![p] = FALSE]
    /\ nStopOk' = [nStopOk EXCEPT ![p] = @ + 1]
    /\ discPc' = [discPc EXCEPT ![p][c] = "alive"]
    /\ UNCHANGED last
    /\ UNCHANGED <<alive, cancelled, connClosed, connState, stream, input, queueVars,
                   annVars, readerVars, writerVars, announcerVars, nStart,
                   nStopErr, nCancel, nClose, nDiscard>>
    /\ UNCHANGED <<dhtVars, simVars>>

\* p.started.CAS(true, false) fails: "switch peer is already stopped".
StopCASLost(p, c) ==
    /\ discPc[p][c] = "cas"
    /\ ~started[p]
    /\ nStopErr' = [nStopErr EXCEPT ![p] = Min(@ + 1, MaxStopErr)]
    /\ discPc' = [discPc EXCEPT ![p][c] = "idle"]
    /\ ResumeCaller(p, c)
    /\ UNCHANGED last
    /\ UNCHANGED <<peerVars, queueVars, annVars, cur, hops, sent, wframe,
                   announcerVars, nStart, nStopOk, nCancel, nClose, nDiscard>>
    /\ UNCHANGED <<dhtVars, simVars>>

\* p.alive.Store(false)
StopAlive(p, c) ==
    /\ discPc[p][c] = "alive"
    /\ alive' = [alive EXCEPT ![p] = FALSE]
    /\ discPc' = [discPc EXCEPT ![p][c] = "close"]
    /\ UNCHANGED last
    /\ UNCHANGED <<started, cancelled, connClosed, connState, stream, input, queueVars,
                   annVars, readerVars, writerVars, announcerVars, histVars>>
    /\ UNCHANGED <<dhtVars, simVars>>

\* p.cancel(); p.conn.Close(); then the rest of Router.Disconnect, which
\* triggers the re-announcement.
StopClose(p, c) ==
    /\ discPc[p][c] = "close"
    /\ cancelled' = [cancelled EXCEPT ![p] = TRUE]
    /\ connClosed' = [connClosed EXCEPT ![p] = TRUE]
    /\ nCancel' = [nCancel EXCEPT ![p] = @ + 1]
    /\ nClose' = [nClose EXCEPT ![p] = @ + 1]
    /\ announcerPc' = Broadcast
    /\ discPc' = [discPc EXCEPT ![p][c] = "idle"]
    /\ ResumeCaller(p, c)
    /\ UNCHANGED last
    /\ UNCHANGED <<started, alive, connState, stream, input, queueVars, annVars, cur,
                   hops, sent, wframe, starterPc, nStart,
                   nStopOk, nStopErr, nDiscard>>
    /\ UNCHANGED <<dhtVars, simVars>>

\* An external caller calls Router.Disconnect(p).
ExtDisconnect(p) ==
    /\ discPc[p]["ext"] = "idle"
    /\ nStart[p] > 0
    /\ nStopErr[p] < MaxStopErr
    /\ discPc' = [discPc EXCEPT ![p]["ext"] = "cas"]
    /\ UNCHANGED last
    /\ UNCHANGED <<peerVars, queueVars, annVars, readerVars, writerVars,
                   announcerVars, histVars>>
    /\ UNCHANGED <<dhtVars, simVars>>


(***************************************************************************)
(* Peer.announcer and the tree's advertise condition.                      *)
(***************************************************************************)
\* p.r.tree.advertise.L.Lock()
AnnouncerLock(p) ==
    /\ announcerPc[p] = "lock"
    /\ advLock = NoPort
    /\ advLock' = {p}
    /\ announcerPc' = [announcerPc EXCEPT ![p] = "loop"]
    /\ UNCHANGED last
    /\ UNCHANGED <<peerVars, queueVars, announcement, coords, public, treeRoot,
                   now, readerVars, writerVars, starterPc,
                   discPc, histVars>>
    /\ UNCHANGED <<dhtVars, simVars>>

\* case <-p.context.Done(): return, with the deferred Unlock.
AnnouncerExit(p) ==
    /\ announcerPc[p] = "loop"
    /\ cancelled[p]
    /\ advLock' = NoPort
    /\ announcerPc' = [announcerPc EXCEPT ![p] = "done"]
    /\ UNCHANGED last
    /\ UNCHANGED <<peerVars, queueVars, announcement, coords, public, treeRoot,
                   now, readerVars, writerVars, starterPc,
                   discPc, histVars>>
    /\ UNCHANGED <<dhtVars, simVars>>

\* default: p.r.tree.advertise.Wait() releases the lock and sleeps.
AnnouncerWait(p) ==
    /\ announcerPc[p] = "loop"
    /\ ~cancelled[p]
    /\ advLock' = NoPort
    /\ announcerPc' = [announcerPc EXCEPT ![p] = "wait"]
    /\ UNCHANGED last
    /\ UNCHANGED <<peerVars, queueVars, announcement, coords, public, treeRoot,
                   now, readerVars, writerVars, starterPc,
                   discPc, histVars>>
    /\ UNCHANGED <<dhtVars, simVars>>

\* Wait returns with the lock held again; generateAnnouncement; the send on
\* p.announce begins when there is an announcement.
AnnouncerWoken(p) ==
    /\ announcerPc[p] = "woken"
    /\ advLock = NoPort
    /\ advLock' = {p}
    /\ LET ann == generateAnnouncement(p)
       IN  IF ann = NoFrame
           THEN /\ announcerPc' = [announcerPc EXCEPT ![p] = "loop"]
                /\ UNCHANGED announce
           ELSE /\ announcerPc' = [announcerPc EXCEPT ![p] = "send"]
                /\ announce' = [announce EXCEPT ![p] = Append(@, Offer(ann, "announcer"))]
    /\ last' = Generated(p, "announcer")
    /\ UNCHANGED <<peerVars, protoOut, trafficOut, statistics, announcement,
                   coords, public, treeRoot, now, readerVars, writerVars, starterPc, discPc, histVars>>
    /\ UNCHANGED <<dhtVars, simVars>>

\* p.announce <- ann has completed.
AnnouncerSent(p) ==
    /\ announcerPc[p] = "send"
    /\ SendCompleted(p, "announcer")
    /\ announcerPc' = [announcerPc EXCEPT ![p] = "loop"]
    /\ UNCHANGED last
    /\ UNCHANGED <<peerVars, queueVars, annVars, readerVars, writerVars, starterPc, discPc, histVars>>
    /\ UNCHANGED <<dhtVars, simVars>>

\* The tree changes its root announcement and broadcasts on tree.advertise.
TreeChange(r) ==
    /\ treeRoot' = r
    /\ announcerPc' = Broadcast
    /\ UNCHANGED last
    /\ UNCHANGED <<peerVars, queueVars, announcement, coords, public, advLock,
                   now, readerVars, writerVars, starterPc,
                   discPc, histVars>>
    /\ UNCHANGED <<dhtVars, simVars>>

(***************************************************************************)
(* Router.Connect and Peer.start                                           *)
(***************************************************************************)
\* Every goroutine of an earlier start of the slot has ended.
Quiescent(p) ==
    /\ readerPc[p] \in {"off", "done"}
    /\ writerPc[p] \in {"off", "done"}
    /\ announcerPc[p] \in {"off", "done"}
    /\ starterPc[p] = "idle"
    /\ \A c \in Callers : discPc[p][c] = "idle"

\* A start that stores true in alive.
startAliveSet == TRUE

\* Peer.start after p.started.CAS(false, true) has succeeded: what it stores
\* in alive.
startAlive == FALSE

\* Router.Connect attaches a connection to the free slot p (a fresh context,
\* connection and queues) and calls Peer.start, which spawns the three
\* goroutines.
Start(p, key, inp) ==
    /\ ~started[p]
    /\ Quiescent(p)
    /\ nStart[p] < MaxStarts
    /\ started' = [started EXCEPT ![p] = TRUE]
    /\ alive' = [alive EXCEPT ![p] = startAlive]
    /\ cancelled' = [cancelled EXCEPT ![p] = FALSE]
    /\ connClosed' = [connClosed EXCEPT ![p] = FALSE]
    /\ connState' = [connState EXCEPT ![p] = "ok"]
    /\ stream' = [stream EXCEPT ![p] = inp.garbage \o inp.frame \o inp.rest]
    /\ input' = [input EXCEPT ![p] = inp]
    /\ public' = [public EXCEPT ![p] = key]
    /\ announce' = [announce EXCEPT ![p] = <<>>]
    /\ protoOut' = [protoOut EXCEPT ![p] = <<>>]
    /\ trafficOut' = [trafficOut EXCEPT ![p] = <<>>]
    /\ readerPc' = [readerPc EXCEPT ![p] = "top"]
    /\ writerPc' = [writerPc EXCEPT ![p] = "sel1"]
    /\ announcerPc' = [announcerPc EXCEPT ![p] = "lock"]
    /\ starterPc' = [starterPc EXCEPT ![p] = "gen"]
    /\ nStart' = [nStart EXCEPT ![p] = @ + 1]
    /\ nDiscard' = [nDiscard EXCEPT ![p] = 0]
    /\ UNCHANGED last
    /\ UNCHANGED <<statistics, announcement, coords, treeRoot, advLock, now,
                   cur, hops, sent, wframe, discPc, nStopOk,
                   nStopErr, nCancel, nClose>>
    /\ UNCHANGED <<dhtVars, simVars>>

\* if ann := p.generateAnnouncement(); ann != nil { p.announce <- ann }
StartAnnounce(p) ==
    /\ starterPc[p] = "gen"
    /\ LET ann == generateAnnouncement(p)
       IN  IF ann = NoFrame
           THEN /\ starterPc' = [starterPc EXCEPT ![p] = "idle"]
                /\ UNCHANGED announce
           ELSE /\ starterPc' = [starterPc EXCEPT ![p] = "send"]
                /\ announce' = [announce EXCEPT ![p] = Append(@, Offer(ann, "starter"))]
    /\ last' = Generated(p, "starter")
    /\ UNCHANGED <<peerVars, protoOut, trafficOut, statistics, annVars,
                   readerVars, writerVars, announcerPc, discPc,
                   histVars>>
    /\ UNCHANGED <<dhtVars, simVars>>

\* The send of Peer.start has completed: start returns nil.
StartReturn(p) ==
    /\ starterPc[p] = "send"
    /\ SendCompleted(p, "starter")
    /\ starterPc' = [starterPc EXCEPT ![p] = "idle"]
    /\ UNCHANGED last
    /\ UNCHANGED <<peerVars, queueVars, annVars, readerVars, writerVars,
                   announcerPc, discPc, histVars>>
    /\ UNCHANGED <<dhtVars, simVars>>

\* The remote end closes the connection ("eof") or the connection breaks
\* ("reset").
ConnFail(p, how) ==
    /\ started[p]
    /\ connState[p] = "ok"
    /\ connState' = [connState EXCEPT ![p] = how]
    /\ UNCHANGED last
    /\ UNCHANGED <<started, alive, cancelled, connClosed, stream, input,
                   queueVars, annVars, readerVars, writerVars, announcerVars,
                   discPc, histVars>>
    /\ UNCHANGED <<dhtVars, simVars>>


(***************************************************************************)
(* Peer.reader: framing.                                                   *)
(***************************************************************************)
\* Reading from the connection can fail: always once it is closed locally or
\* broken, and at the end of the bytes once the remote has closed it.
ReadCanFail(p, need) ==
    \/ connClosed[p]
    \/ connState[p] = "reset"
    \/ connState[p] = "eof" /\ Len(stream[p]) < need

\* case <-p.context.Done(): return
ReaderExit(p) ==
    /\ readerPc[p] = "top"
    /\ cancelled[p]
    /\ readerPc' = [readerPc EXCEPT ![p] = "done"]
    /\ UNCHANGED last
    /\ UNCHANGED <<peerVars, queueVars, annVars, cur, hops, sent, writerVars,
                   announcerVars, discPc, histVars>>
    /\ UNCHANGED <<dhtVars, simVars>>

\* default: the reader goes into p.conn.Peek(12).
ReaderEnter(p) ==
    /\ readerPc[p] = "top"
    /\ ~cancelled[p]
    /\ readerPc' = [readerPc EXCEPT ![p] = "peek"]
    /\ UNCHANGED last
    /\ UNCHANGED <<peerVars, queueVars, annVars, cur, hops, sent, writerVars,
                   announcerVars, discPc, histVars>>
    /\ UNCHANGED <<dhtVars, simVars>>

\* p.conn.Peek(12) fails: Router.Disconnect, return.
ReaderPeekError(p) ==
    /\ readerPc[p] = "peek"
    /\ ReadCanFail(p, 12)
    /\ readerPc' = [readerPc EXCEPT ![p] = "disc"]
    /\ discPc' = [discPc EXCEPT ![p]["reader"] = "cas"]
    /\ last' = [op |-> "peek", port |-> p, err |-> TRUE,
                disconnects |-> discPc'[p]["reader"] = "cas"]
    /\ UNCHANGED <<peerVars, queueVars, annVars, cur, hops, sent, writerVars,
                   announcerVars, histVars>>
    /\ UNCHANGED <<dhtVars, simVars>>

\* The peeked bytes do not start with the magic bytes: p.conn.Discard(1),
\* continue.
ReaderDiscard(p) ==
    /\ readerPc[p] = "peek"
    /\ Len(stream[p]) >= 12
    /\ SubSeq(stream[p], 1, 4) # FrameMagicBytes
    /\ stream' = [stream EXCEPT ![p] = Discard(@, 1)]
    /\ nDiscard' = [nDiscard EXCEPT ![p] = @ + 1]
    /\ readerPc' = [readerPc EXCEPT ![p] = "top"]
    /\ UNCHANGED last
    /\ UNCHANGED <<started, alive, cancelled, connClosed, connState, input,
                   queueVars, annVars, cur, hops, sent, writerVars,
                   announcerVars, discPc, nStart, nStopOk, nStopErr, nCancel,
                   nClose>>
    /\ UNCHANGED <<dhtVars, simVars>>

\* The peeked bytes start with the magic bytes: the reader computes the
\* length and goes into io.ReadFull.
ReaderHeader(p) ==
    /\ readerPc[p] = "peek"
    /\ Len(stream[p]) >= 12
    /\ SubSeq(stream[p], 1, 4) = FrameMagicBytes
    /\ readerPc' = [readerPc EXCEPT ![p] = "read"]
    /\ UNCHANGED last
    /\ UNCHANGED <<peerVars, queueVars, annVars, cur, hops, sent, writerVars,
                   announcerVars, discPc, histVars>>
    /\ UNCHANGED <<dhtVars, simVars>>

\* What the reader does with the error of io.ReadFull: "disconnect" for
\* io.EOF and io.ErrUnexpectedEOF, "continue" for every other error.
OnReadError(err) == IF err \in {"EOF", "UnexpectedEOF"} THEN "disconnect" ELSE "continue"

\* The error io.ReadFull returns: the end of the stream when the remote has
\* closed the connection, the connection's own error otherwise.
ReadError(p) ==
    IF ~connClosed[p] /\ connState[p] = "eof" THEN "UnexpectedEOF" ELSE "closed"

\* io.ReadFull fails.
ReaderReadError(p) ==
    /\ readerPc[p] = "read"
    /\ ReadCanFail(p, Expecting(SubSeq(stream[p], 1, 12)))
    /\ stream' = [stream EXCEPT ![p] = <<>>]
    /\ IF OnReadError(ReadError(p)) = "disconnect"
       THEN /\ readerPc' = [readerPc EXCEPT ![p] = "disc"]
            /\ discPc' = [discPc EXCEPT ![p]["reader"] = "cas"]
       ELSE /\ readerPc' = [readerPc EXCEPT ![p] = "top"]
            /\ UNCHANGED discPc
    /\ last' = [op |-> "read", port |-> p, err |-> TRUE,
                disconnects |-> discPc'[p]["reader"] = "cas"]
    /\ UNCHANGED <<started, alive, cancelled, connClosed, connState, input,
                   queueVars, annVars, cur, hops, sent, writerVars,
                   announcerVars, histVars>>
    /\ UNCHANGED <<dhtVars, simVars>>

\* The candidate lists getNextHops can return: distinct ports.
HopLists ==
    {<<>>} \cup {<<a>> : a \in Ports}
        \cup (IF MaxHops >= 2
              THEN {<<a, b>> : a \in Ports, b \in Ports} \ {<<a, a>> : a \in Ports}
              ELSE {})

\* What the reader does with the bytes of one frame: "unmarshal" and
\* "version" end the reader, "dispatch" hands the frame on.
ParseOutcome(buf) ==
    LET u == UnmarshalBinary(buf)
    IN  IF ~u.ok THEN "unmarshal"
        ELSE IF u.frame.version # Version0 THEN "version"
        ELSE "dispatch"

\* io.ReadFull returns the frame's bytes; frame.UnmarshalBinary fails or the
\* version is not Version0: frame.Done(), return.
ReaderParseError(p) ==
    /\ readerPc[p] = "read"
    /\ LET n == Expecting(SubSeq(stream[p], 1, 12))
       IN  /\ Len(stream[p]) >= n
           /\ ParseOutcome(SubSeq(stream[p], 1, n)) # "dispatch"
           /\ stream' = [stream EXCEPT ![p] = SubSeqFrom(@, n + 1)]
           /\ last' = [op |-> "readerExit", port |-> p,
                       why |-> ParseOutcome(SubSeq(stream[p], 1, n))]
    /\ readerPc' = [readerPc EXCEPT ![p] = "done"]
    /\ UNCHANGED <<started, alive, cancelled, connClosed, connState, input,
                   queueVars, annVars, cur, hops, sent, writerVars,
                   announcerVars, discPc, histVars>>
    /\ UNCHANGED <<dhtVars, simVars>>

\* io.ReadFull returns the frame's bytes and the frame parses:
\* p.getNextHops(frame, p.port) gives the candidates.
ReaderParsed(p, hl) ==
    /\ readerPc[p] = "read"
    /\ LET n == Expecting(SubSeq(stream[p], 1, 12))
       IN  /\ Len(stream[p]) >= n
           /\ ParseOutcome(SubSeq(stream[p], 1, n)) = "dispatch"
           /\ stream' = [stream EXCEPT ![p] = SubSeqFrom(@, n + 1)]
           /\ cur' = [cur EXCEPT ![p] = UnmarshalBinary(SubSeq(stream[p], 1, n)).frame]
    /\ hops' = [hops EXCEPT ![p] = hl]
    /\ sent' = [sent EXCEPT ![p] = FALSE]
    /\ readerPc' = [readerPc EXCEPT ![p] = "check"]
    /\ nDiscard' = [nDiscard EXCEPT ![p] = 0]
    /\ last' = [op |-> "parsed", port |-> p, discards |-> nDiscard[p],
                frame |-> cur'[p], remaining |-> stream'[p]]
    /\ UNCHANGED <<started, alive, cancelled, connClosed, connState, input,
                   queueVars, annVars, writerVars, announcerVars, discPc,
                   nStart, nStopOk, nStopErr, nCancel, nClose>>
    /\ tried' = [tried EXCEPT ![p] = <<>>]
    /\ UNCHANGED <<dhtVars, orphans, peertype, sim>>


(***************************************************************************)
(* Peer.reader: the dispatch of a parsed frame to the first candidate port *)
(* that takes it.                                                          *)
(***************************************************************************)
\* A check of the candidate that compares the ports and not the keys.
SkipCandidateByPort(p, d) ==
    \/ ~started[d]
    \/ d # 0 /\ ~alive[d]
    \/ p # 0 /\ d # 0 /\ p = d

\* A switch that takes the pathfind frames for protocol frames.
QueueClassPathfindAsProto(t) ==
    CASE t \in PathfindTypes \cup ProtoTypes -> "proto"
      [] t \in TrafficTypes -> "traffic"
      [] OTHER -> "none"

\* What became of the candidate d: "skipped", "sent" or "not sent".
Tried(d, what) == [port |-> d, what |-> what]

\* The candidate d is skipped by the reader of port p (the two "continue"s
\* before the switch on the frame type).
SkipCandidate(p, d) ==
    \/ ~started[d]
    \/ d # 0 /\ ~alive[d]
    \/ p # 0 /\ d # 0 /\ (p = d \/ public[p] = public[d])

\* The queue class of a frame type in the switch of the reader ("none": no
\* case of the switch matches).
QueueClass(t) ==
    CASE t \in PathfindTypes -> "pathfind"
      [] t \in ProtoTypes -> "proto"
      [] t \in TrafficTypes -> "traffic"
      [] OTHER -> "none"

\* A push to protoOut that counts a failed push as a successful one.
PushProtoMiscounted(q, st, f) ==
    LET r == FifoPush(q, f)
    IN  [sent |-> r.ok, q |-> r.q, st |-> [st EXCEPT !.txProtoSuccessful = @ + 1]]

\* case of the protocol frame types: dest.protoOut.push and the counters.
PushProto(q, st, f) ==
    LET r == FifoPush(q, f)
    IN  IF r.ok
        THEN [sent |-> TRUE, q |-> r.q,
              st |-> [st EXCEPT !.txProtoSuccessful = @ + 1]]
        ELSE [sent |-> FALSE, q |-> r.q,
              st |-> [st EXCEPT !.txProtoDropped = @ + 1]]

\* case of the traffic frame types (and of a signed pathfind frame):
\* dest.trafficOut.push and the counters.
PushTraffic(q, st, f) ==
    LET r == LifoPush(q, f)
    IN  IF r.ok
        THEN [sent |-> TRUE, q |-> r.q,
              st |-> [st EXCEPT !.txTrafficSuccessful = @ + 1]]
        ELSE [sent |-> FALSE, q |-> r.q,
              st |-> [st EXCEPT !.txTrafficDropped = @ + 1]]

\* The loop over the candidates has ended without a successful push: the
\* deferred function counts the frame in rxDroppedNoDestination.
ReaderNoDestination(p) ==
    /\ readerPc[p] = "check"
    /\ hops[p] = <<>>
    /\ statistics' = [statistics EXCEPT ![p].rxDroppedNoDestination =
                          IF sent[p] THEN @ ELSE @ + 1]
    /\ cur' = [cur EXCEPT ![p] = NoFrame]
    /\ readerPc' = [readerPc EXCEPT ![p] = "top"]
    /\ UNCHANGED last
    /\ UNCHANGED <<peerVars, announce, protoOut, trafficOut, annVars, hops,
                   sent, writerVars, announcerVars, discPc, histVars>>
    /\ UNCHANGED <<dhtVars, simVars>>

\* The next candidate is skipped, or the frame's type has no case in the
\* switch: the loop goes on with the next candidate.
ReaderSkip(p) ==
    /\ readerPc[p] = "check"
    /\ hops[p] # <<>>
    /\ SkipCandidate(p, Head(hops[p])) \/ QueueClass(cur[p].type) = "none"
    /\ hops' = [hops EXCEPT ![p] = Tail(@)]
    /\ tried' = [tried EXCEPT ![p] = Append(@, Tried(Head(hops[p]), "skipped"))]
    /\ UNCHANGED last
    /\ UNCHANGED <<peerVars, queueVars, annVars, readerPc, cur, sent,
                   writerVars, announcerVars, discPc, histVars>>
    /\ UNCHANGED <<dhtVars, orphans, peertype, sim>>

\* The next candidate has passed the checks: the reader goes on to the
\* switch on the frame type.
ReaderAccept(p) ==
    /\ readerPc[p] = "check"
    /\ hops[p] # <<>>
    /\ ~SkipCandidate(p, Head(hops[p]))
    /\ QueueClass(cur[p].type) # "none"
    /\ readerPc' = [readerPc EXCEPT ![p] = "push"]
    /\ UNCHANGED last
    /\ UNCHANGED <<peerVars, queueVars, annVars, cur, hops, sent, writerVars,
                   announcerVars, discPc, histVars>>
    /\ UNCHANGED <<dhtVars, simVars>>

\* A loop that goes on to the next candidate after a push that succeeded.
AfterPushGoesOn(p, ok) ==
    /\ sent' = [sent EXCEPT ![p] = ok]
    /\ tried' = [tried EXCEPT ![p] = Append(@, Tried(Head(hops[p]), IF ok THEN "sent" ELSE "not sent"))]
    /\ readerPc' = [readerPc EXCEPT ![p] = "check"]
    /\ hops' = [hops EXCEPT ![p] = Tail(@)]
    /\ UNCHANGED cur

\* After a push to the candidate: return when it succeeded, else continue.
AfterPush(p, ok) ==
    /\ sent' = [sent EXCEPT ![p] = ok]
    /\ tried' = [tried EXCEPT ![p] = Append(@, Tried(Head(hops[p]), IF ok THEN "sent" ELSE "not sent"))]
    /\ IF ok
       THEN /\ readerPc' = [readerPc EXCEPT ![p] = "top"]
            /\ cur' = [cur EXCEPT ![p] = NoFrame]
            /\ hops' = [hops EXCEPT ![p] = <<>>]
       ELSE /\ readerPc' = [readerPc EXCEPT ![p] = "check"]
            /\ hops' = [hops EXCEPT ![p] = Tail(@)]
            /\ UNCHANGED cur

\* What the reader records of a push.
PushEvent(p, d, class, r, before) ==
    [op |-> "push", port |-> p, to |-> d, class |-> class, ok |-> r.sent,
     frame |-> cur[p], before |-> before, after |-> r.q,
     stBefore |-> statistics[d], stAfter |-> r.st]

\* A protocol frame is pushed to the candidate's protoOut.
ReaderPushProto(p) ==
    /\ readerPc[p] = "push"
    /\ QueueClass(cur[p].type) = "proto"
    /\ LET d == Head(hops[p])
           r == PushProto(protoOut[d], statistics[d], cur[p])
       IN  /\ protoOut' = [protoOut EXCEPT ![d] = r.q]
           /\ statistics' = [statistics EXCEPT ![d] = r.st]
           /\ AfterPush(p, r.sent)
           /\ last' = PushEvent(p, d, "proto", r, protoOut[d])
    /\ UNCHANGED <<peerVars, announce, trafficOut, annVars, writerVars,
                   announcerVars, discPc, histVars>>
    /\ UNCHANGED <<dhtVars, orphans, peertype, sim>>

\* A traffic frame is pushed to the candidate's trafficOut.
ReaderPushTraffic(p) ==
    /\ readerPc[p] = "push"
    /\ QueueClass(cur[p].type) = "traffic"
    /\ LET d == Head(hops[p])
           r == PushTraffic(trafficOut[d], statistics[d], cur[p])
       IN  /\ trafficOut' = [trafficOut EXCEPT ![d] = r.q]
           /\ statistics' = [statistics EXCEPT ![d] = r.st]
           /\ AfterPush(p, r.sent)
           /\ last' = PushEvent(p, d, "traffic", r, trafficOut[d])
    /\ UNCHANGED <<peerVars, announce, protoOut, annVars, writerVars,
                   announcerVars, discPc, histVars>>
    /\ UNCHANGED <<dhtVars, orphans, peertype, sim>>

\* A pathfind frame: p.r.signPathfind fails or returns no frame (continue),
\* or the signed frame is pushed to the candidate's trafficOut.
ReaderPushPathfind(p, signed) ==
    /\ readerPc[p] = "push"
    /\ QueueClass(cur[p].type) = "pathfind"
    /\ LET d == Head(hops[p])
           r == PushTraffic(trafficOut[d], statistics[d], cur[p])
       IN  IF signed
           THEN /\ trafficOut' = [trafficOut EXCEPT ![d] = r.q]
                /\ statistics' = [statistics EXCEPT ![d] = r.st]
                /\ AfterPush(p, r.sent)
                /\ last' = PushEvent(p, d, "pathfind", r, trafficOut[d])
           ELSE /\ AfterPush(p, FALSE)
                /\ UNCHANGED last
                /\ UNCHANGED <<trafficOut, statistics>>
    /\ UNCHANGED <<peerVars, announce, protoOut, annVars, writerVars,
                   announcerVars, discPc, histVars>>
    /\ UNCHANGED <<dhtVars, orphans, peertype, sim>>

(***************************************************************************)
(* The announcement slot of a peer.                                        *)
(***************************************************************************)
\* Peer.updateAnnouncement: what it leaves in alive, announcement and coords.
updateAnnouncement(p, new) ==
    LET c == PeerCoords(new, public[p])
    IN  IF ~c.ok
        THEN [alive |-> FALSE, announcement |-> NoAnn, coords |-> NoCoords, err |-> TRUE]
        ELSE [alive |-> TRUE, announcement |-> AnnWithTime(new, now),
              coords |-> c.coords, err |-> FALSE]

\* The tree calls p.updateAnnouncement(new) for an announcement received
\* from the peer.
UpdateAnnouncement(p, new) ==
    /\ nStart[p] > 0
    /\ LET r == updateAnnouncement(p, new)
       IN  /\ alive' = [alive EXCEPT ![p] = r.alive]
           /\ announcement' = [announcement EXCEPT ![p] = r.announcement]
           /\ coords' = [coords EXCEPT ![p] = r.coords]
           /\ last' = [op |-> "updateAnnouncement", port |-> p, new |-> new,
                       key |-> public[p], at |-> now, alive |-> r.alive,
                       announcement |-> r.announcement, coords |-> r.coords]
    /\ UNCHANGED <<started, cancelled, connClosed, connState, stream, input, queueVars,
                   public, treeRoot, advLock, now, readerVars, writerVars,
                   announcerVars, discPc, histVars>>
    /\ UNCHANGED <<dhtVars, simVars>>

\* Time passes.
Tick(d) ==
    /\ now + d <= MaxTime
    /\ now' = now + d
    /\ UNCHANGED last
    /\ UNCHANGED <<peerVars, queueVars, announcement, coords, public, treeRoot,
                   advLock, readerVars, writerVars, announcerVars, discPc,
                   histVars>>
    /\ UNCHANGED <<dhtVars, simVars>>

\* A caller asks p.SeenRecently().
CallSeenRecently(p) ==
    /\ last' = [op |-> "SeenRecently", port |-> p, result |-> SeenRecently(p),
                started |-> started[p], announcement |-> announcement[p],
                now |-> now]
    /\ UNCHANGED <<peerVars, queueVars, annVars, readerVars, writerVars,
                   announcerVars, discPc, histVars>>
    /\ UNCHANGED <<dhtVars, simVars>>


(***************************************************************************)
(* Initial states.                                                         *)
(***************************************************************************)
NoInput == [garbage |-> <<>>, frame |-> <<>>, rest |-> <<>>]
Input(g, f, r) == [garbage |-> g, frame |-> f, rest |-> r]

\* Frames as the remote writes them: a traffic frame (Greedy), a protocol
\* frame (DHTRequest), a tree announcement (STP), each with a payload byte.
GreedyBytes == WireFrame(Version0, 2, <<>>, <<>>, <<7>>)
ProtoBytes == WireFrame(Version0, 9, <<>>, <<>>, <<8>>)
PathfindBytes == WireFrame(Version0, 11, <<>>, <<>>, <<6>>)
STPBytes == WireFrame(Version0, 0, <<>>, <<>>, <<>>)
\* A frame of an unknown version, and one whose destination does not parse.
BadVersionBytes == WireFrame(1, 2, <<>>, <<>>, <<7>>)
MalformedBytes == WireFrame(Version0, 2, <<128>>, <<>>, <<7>>)

\* The router after NewRouter: the local port 0 is started, no remote peer
\* is connected.
InitBase ==
    /\ started = [p \in Ports |-> p = 0]
    /\ alive = [p \in Ports |-> FALSE]
    /\ cancelled = [p \in Ports |-> FALSE]
    /\ connClosed = [p \in Ports |-> FALSE]
    /\ connState = [p \in Ports |-> "ok"]
    /\ announce = [p \in Ports |-> <<>>]
    /\ protoOut = [p \in Ports |-> <<>>]
    /\ trafficOut = [p \in Ports |-> <<>>]
    /\ statistics = [p \in Ports |-> ZeroStatistics]
    /\ announcement = [p \in Ports |-> NoAnn]
    /\ coords = [p \in Ports |-> NoCoords]
    /\ public = [p \in Ports |-> IF p = 0 THEN RouterKey ELSE 9]
    /\ treeRoot = OwnRoot
    /\ advLock = NoPort
    /\ now = 0
    /\ cur = [p \in Ports |-> NoFrame]
    /\ hops = [p \in Ports |-> <<>>]
    /\ sent = [p \in Ports |-> FALSE]
    /\ writerPc = [p \in Ports |-> "off"]
    /\ wframe = [p \in Ports |-> NoFrame]
    /\ announcerPc = [p \in Ports |-> "off"]
    /\ starterPc = [p \in Ports |-> "idle"]
    /\ discPc = [p \in Ports |-> [c \in Callers |-> "idle"]]
    /\ nStart = [p \in Ports |-> IF p = 0 THEN 1 ELSE 0]
    /\ nStopOk = [p \in Ports |-> 0]
    /\ nStopErr = [p \in Ports |-> 0]
    /\ nCancel = [p \in Ports |-> 0]
    /\ nClose = [p \in Ports |-> 0]
    /\ nDiscard = [p \in Ports |-> 0]
    /\ last = NoEvent
    /\ dht = EmptyDHT
    /\ held = NoHeld
    /\ net = NoNet
    /\ tried = [p \in Ports |-> <<>>]
    /\ orphans = NoOrphans
    /\ peertype = [p \in Ports |-> PeerTypeRemote]
    /\ sim = NoSim

ReaderStep(p) ==
    \/ ReaderExit(p)
    \/ ReaderEnter(p)
    \/ ReaderPeekError(p)
    \/ ReaderDiscard(p)
    \/ ReaderHeader(p)
    \/ ReaderReadError(p)
    \/ ReaderParseError(p)
    \/ \E hl \in HopLists : ReaderParsed(p, hl)
    \/ ReaderNoDestination(p)
    \/ ReaderSkip(p)
    \/ ReaderAccept(p)
    \/ ReaderPushProto(p)
    \/ ReaderPushTraffic(p)
    \/ \E signed \in BOOLEAN : ReaderPushPathfind(p, signed)

WriterStep(p) ==
    \/ \E k \in Selects : WriterExit(p, k)
    \/ \E k \in Selects : WriterTakeAnn(p, k)
    \/ \E k \in Selects : WriterTakeProto(p, k)
    \/ WriterTakeTraffic(p)
    \/ WriterDefault1(p)
    \/ WriterDefault2(p)
    \/ WriterSend(p)

AnnouncerStep(p) ==
    \/ AnnouncerLock(p)
    \/ AnnouncerExit(p)
    \/ AnnouncerWait(p)
    \/ AnnouncerWoken(p)
    \/ AnnouncerSent(p)

StopStep(p) ==
    \E c \in Callers :
        \/ StopCASWon(p, c)
        \/ StopCASLost(p, c)
        \/ StopAlive(p, c)
        \/ StopClose(p, c)


(***************************************************************************)
(* SpecWriter: the writer of the peer on port 1 while the reader of the    *)
(* local port 0 pushes a protocol frame and a traffic frame to it, its     *)
(* announcer hands over announcements and the peer is disconnected.        *)
(***************************************************************************)
\* What the local node sends: a protocol frame and a traffic frame, in
\* either order.
LocalInputs == {Input(<<>>, ProtoBytes, GreedyBytes), Input(<<>>, GreedyBytes, ProtoBytes)}

\* The announcement the remote with key 9 has sent.
FirstAnn == Ann(9, 1, <<Sig(1, 9)>>)

\* The peer on port 1 is connected and alive; its goroutines have started.
InitConnected ==
    /\ started = [p \in Ports |-> p \in {0, 1}]
    /\ alive = [p \in Ports |-> p = 1]
    /\ cancelled = [p \in Ports |-> FALSE]
    /\ connClosed = [p \in Ports |-> FALSE]
    /\ connState = [p \in Ports |-> "ok"]
    /\ announce = [p \in Ports |-> <<>>]
    /\ statistics = [p \in Ports |-> ZeroStatistics]
    /\ announcement = [p \in Ports |-> IF p = 1 THEN AnnWithTime(FirstAnn, 0) ELSE NoAnn]
    /\ coords = [p \in Ports |-> IF p = 1 THEN PeerCoords(FirstAnn, 9).coords ELSE NoCoords]
    /\ public = [p \in Ports |-> IF p = 0 THEN RouterKey ELSE 9]
    /\ treeRoot = OwnRoot
    /\ advLock = NoPort
    /\ now = 0
    /\ cur = [p \in Ports |-> NoFrame]
    /\ hops = [p \in Ports |-> <<>>]
    /\ sent = [p \in Ports |-> FALSE]
    /\ writerPc = [p \in Ports |-> IF p = 1 THEN "sel1" ELSE "off"]
    /\ wframe = [p \in Ports |-> NoFrame]
    /\ announcerPc = [p \in Ports |-> IF p = 1 THEN "lock" ELSE "off"]
    /\ starterPc = [p \in Ports |-> "idle"]
    /\ discPc = [p \in Ports |-> [c \in Callers |-> "idle"]]
    /\ nStart = [p \in Ports |-> IF p \in {0, 1} THEN 1 ELSE 0]
    /\ nStopOk = [p \in Ports |-> 0]
    /\ nStopErr = [p \in Ports |-> 0]
    /\ nCancel = [p \in Ports |-> 0]
    /\ nClose = [p \in Ports |-> 0]
    /\ nDiscard = [p \in Ports |-> 0]
    /\ last = NoEvent
    /\ dht = EmptyDHT
    /\ held = NoHeld
    /\ net = NoNet
    /\ tried = [p \in Ports |-> <<>>]
    /\ orphans = NoOrphans
    /\ peertype = [p \in Ports |-> PeerTypeRemote]
    /\ sim = NoSim

InitWriter ==
    /\ InitConnected
    /\ protoOut = [p \in Ports |-> <<>>]
    /\ trafficOut = [p \in Ports |-> <<>>]
    /\ \E inp \in LocalInputs :
          /\ input = [p \in Ports |-> IF p = 0 THEN inp ELSE NoInput]
          /\ stream = [p \in Ports |-> IF p = 0 THEN inp.garbage \o inp.frame \o inp.rest
                                       ELSE <<>>]
    /\ readerPc = [p \in Ports |-> IF p = 0 THEN "top" ELSE "off"]

\* The reader of the local port, whose connection does not fail and whose
\* frames getNextHops sends to port 1.
LocalReaderStep ==
    \/ ReaderEnter(0)
    \/ ReaderHeader(0)
    \/ ReaderParsed(0, <<1>>)
    \/ ReaderNoDestination(0)
    \/ ReaderSkip(0)
    \/ ReaderAccept(0)
    \/ ReaderPushProto(0)
    \/ ReaderPushTraffic(0)

NextWriter ==
    \/ LocalReaderStep
    \/ WriterStep(1)
    \/ AnnouncerStep(1)
    \/ StopStep(1)
    \/ ExtDisconnect(1)
    \/ \E r \in Roots : TreeChange(r)

SpecWriter == InitWriter /\ [][NextWriter]_vars


\* C1: whenever the writer takes a frame, it is an announcement if one is
\* ready, otherwise a protocol frame if one is queued, and a traffic frame
\* only when neither an announcement nor a protocol frame is ready.
C1_StrictPriority ==
    last.op = "choose" =>
        /\ last.src = "proto" => ~last.ann
        /\ last.src = "traffic" => ~last.ann /\ ~last.proto


(***************************************************************************)
(* SpecLife: the life of the peer on port 1 from Router.Connect to the end *)
(* of its goroutines: the connection fails or is closed, the reader, the   *)
(* writer and external callers call Router.Disconnect, and the port is     *)
(* connected again once the goroutines of the earlier start have ended.    *)
(***************************************************************************)
\* What the remote sends before the connection fails: nothing, or one
\* traffic frame.
LifeInputs == {NoInput, Input(<<>>, GreedyBytes, <<>>)}

InitLife ==
    /\ InitBase
    /\ stream = [p \in Ports |-> <<>>]
    /\ input = [p \in Ports |-> NoInput]
    /\ readerPc = [p \in Ports |-> "off"]

\* The reader of port 1; getNextHops finds no candidate for its frames.
LifeReaderStep ==
    \/ ReaderExit(1)
    \/ ReaderEnter(1)
    \/ ReaderPeekError(1)
    \/ ReaderHeader(1)
    \/ ReaderReadError(1)
    \/ ReaderParsed(1, <<>>)
    \/ ReaderNoDestination(1)

\* The writer of port 1, whose queues stay empty: it writes announcements.
LifeWriterStep ==
    \/ \E k \in Selects : WriterExit(1, k)
    \/ \E k \in Selects : WriterTakeAnn(1, k)
    \/ WriterDefault1(1)
    \/ WriterDefault2(1)
    \/ WriterSend(1)

LifeStartStep ==
    \/ \E inp \in LifeInputs : Start(1, 9, inp)
    \/ StartAnnounce(1)
    \/ StartReturn(1)

NextLife ==
    \/ LifeStartStep
    \/ LifeReaderStep
    \/ LifeWriterStep
    \/ AnnouncerStep(1)
    \/ StopStep(1)
    \/ ExtDisconnect(1)
    \/ \E how \in {"eof", "reset"} : ConnFail(1, how)

\* The goroutines and the callers of Router.Disconnect are scheduled
\* fairly, and a select does not pass over a ready case for ever.
FairLife ==
    /\ WF_vars(LifeStartStep)
    /\ WF_vars(LifeReaderStep)
    /\ WF_vars(LifeWriterStep)
    /\ SF_vars(\E k \in Selects : WriterExit(1, k))
    /\ WF_vars(AnnouncerStep(1))
    /\ WF_vars(StopStep(1))

SpecLife == InitLife /\ [][NextLife]_vars /\ FairLife


\* Every goroutine of the peer on port p has returned.
TasksDone(p) ==
    readerPc[p] = "done" /\ writerPc[p] = "done" /\ announcerPc[p] = "done"

\* C2: once Disconnect has cancelled the context of a peer, its reader, its
\* writer and its announcer all terminate eventually.
C2_TasksTerminate == cancelled[1] ~> TasksDone(1)

\* C3: for every start of a peer the context is cancelled and the
\* connection is closed exactly once: one stop call wins the CAS on started
\* and goes on to cancel and close, every other call returns the error
\* without cancelling or closing.
C3_StopOnce ==
    \A p \in Ports :
        /\ nCancel[p] = nClose[p]
        /\ nStopOk[p] = nStart[p] - (IF started[p] THEN 1 ELSE 0)
        /\ nClose[p] = nStopOk[p]
              - (IF \E c \in Callers : discPc[p][c] \in {"alive", "close"} THEN 1 ELSE 0)
        /\ nClose[p] >= 0

\* C3 happens: the peer on port 1 has been cancelled and closed by the call
\* that won, another call has returned "already stopped", and the writer's
\* call after a write error is still to come.
C3_Witness ==
    /\ nStart[1] = 1 /\ ~started[1]
    /\ nClose[1] = 1 /\ nCancel[1] = 1
    /\ nStopErr[1] >= 1
    /\ discPc[1]["writer"] = "cas"

\* C6: every failed peek, read or write on the connection of a peer makes
\* the goroutine that saw it call Router.Disconnect for the port.
C6_ErrorDisconnects ==
    last.op \in {"peek", "read", "write"} /\ last.err => last.disconnects


(***************************************************************************)
(* SpecReader: the reader of the peer on port 1 on a stream of garbage     *)
(* bytes followed by one frame, well formed or not, while the remote may   *)
(* close the connection and an external caller may disconnect the peer.    *)
(***************************************************************************)
\* The garbage before the frame: up to MaxGarbage bytes that are zero or the
\* first magic byte, or the magic bytes themselves.
RECURSIVE SeqsUpTo(_, _)
SeqsUpTo(S, n) ==
    IF n = 0 THEN {<<>>}
    ELSE LET shorter == SeqsUpTo(S, n - 1)
         IN  shorter \cup {Append(g, b) : g \in shorter, b \in S}

Garbage == SeqsUpTo({0, 112}, MaxGarbage) \cup {FrameMagicBytes}

ReaderInputs ==
    {Input(g, f, <<>>) : g \in Garbage,
                         f \in {GreedyBytes, BadVersionBytes, MalformedBytes}}

InitReader ==
    /\ InitConnected
    /\ protoOut = [p \in Ports |-> <<>>]
    /\ trafficOut = [p \in Ports |-> <<>>]
    /\ \E inp \in ReaderInputs :
          /\ input = [p \in Ports |-> IF p = 1 THEN inp ELSE NoInput]
          /\ stream = [p \in Ports |-> IF p = 1 THEN inp.garbage \o inp.frame \o inp.rest
                                       ELSE <<>>]
    /\ readerPc = [p \in Ports |-> IF p = 1 THEN "top" ELSE "off"]

\* The reader of port 1; getNextHops finds no candidate or the local port.
RemoteReaderStep ==
    \/ ReaderExit(1)
    \/ ReaderEnter(1)
    \/ ReaderPeekError(1)
    \/ ReaderDiscard(1)
    \/ ReaderHeader(1)
    \/ ReaderReadError(1)
    \/ ReaderParseError(1)
    \/ \E hl \in {<<>>, <<0>>} : ReaderParsed(1, hl)
    \/ ReaderNoDestination(1)
    \/ ReaderAccept(1)
    \/ ReaderPushTraffic(1)

NextReader ==
    \/ RemoteReaderStep
    \/ StopStep(1)
    \/ ExtDisconnect(1)
    \/ ConnFail(1, "eof")

SpecReader == InitReader /\ [][NextReader]_vars

\* Router.Disconnect has stopped the peer on port p, or a call of it that
\* has won the CAS is on its way to do so.
Stopped(p) ==
    \/ ~started[p] /\ ~alive[p] /\ cancelled[p] /\ connClosed[p]
    \/ \E c \in Callers : discPc[p][c] \in {"alive", "close"}

\* C4: when the reader has ended because a frame did not unmarshal or had a
\* version other than 0, the peer is stopped: not started, not alive, its
\* context cancelled and its connection closed.
C4_ParseErrorStops ==
    \A p \in Ports :
        last.op = "readerExit" /\ last.port = p /\ readerPc[p] = "done"
            => Stopped(p)

\* The magic bytes start at no position of s.
MagicFree(s) ==
    \A i \in 1..Len(s) : i + 3 > Len(s) \/ SubSeq(s, i, i + 3) # FrameMagicBytes

\* A frame the reader reads whole and parses.
WellFormed(f) ==
    /\ Len(f) >= 12
    /\ Expecting(SubSeq(f, 1, 12)) = Len(f)
    /\ ParseOutcome(f) = "dispatch"

\* A step in which the reader of port p discards a byte: the first four
\* bytes were not the magic bytes, exactly one byte goes, the reader starts
\* its loop again, and nothing is disconnected, queued or dispatched.
DiscardStep(p) ==
    nDiscard'[p] = nDiscard[p] + 1 =>
        /\ SubSeq(stream[p], 1, 4) # FrameMagicBytes
        /\ stream'[p] = Tail(stream[p])
        /\ readerPc'[p] = "top"
        /\ UNCHANGED <<started, alive, cancelled, connClosed, discPc,
                       queueVars, cur, hops, sent>>

\* The reader of port p gets through the garbage of its input to the frame
\* behind it: it never discards more than the garbage, it reads a frame
\* only after discarding all of it, and what it parses is that frame.
Resyncs(p) ==
    LET k == Len(input[p].garbage)
    IN  /\ nDiscard[p] <= k
        /\ readerPc[p] = "read" => nDiscard[p] = k /\ stream[p] = input[p].frame
        /\ last.op = "parsed" /\ last.port = p =>
              /\ last.discards = k
              /\ last.frame = UnmarshalBinary(input[p].frame).frame
              /\ last.remaining = <<>>

FramesSent == IF ProtoCap > TrafficCap THEN ProtoCap + 1 ELSE TrafficCap + 1

\* The type bytes of the frames sent: DHTRequest (protocol), Greedy
\* (traffic).
SentTypes == {9, 2}

\* The bytes of the frames of the type bytes ts; the payload of a frame is
\* its place in the stream, counted from the end.
RECURSIVE FramesBytes(_)
FramesBytes(ts) ==
    IF ts = <<>> THEN <<>>
    ELSE WireFrame(Version0, Head(ts), <<>>, <<>>, <<Len(ts)>>) \o FramesBytes(Tail(ts))

DispatchInputs ==
    {Input(<<>>, FramesBytes(ts), <<>>) : ts \in [1..FramesSent -> SentTypes]}

\* The candidate lists of the dispatch: none, the local port, the peer on
\* port 1, and the unconnected port 2 before it.
DispatchHops == {<<>>, <<0>>, <<1>>, <<2, 1>>}

InitDispatch ==
    /\ InitConnected
    /\ protoOut = [p \in Ports |-> <<>>]
    /\ trafficOut = [p \in Ports |-> <<>>]
    /\ \E inp \in DispatchInputs :
          /\ input = [p \in Ports |-> IF p = 0 THEN inp ELSE NoInput]
          /\ stream = [p \in Ports |-> IF p = 0 THEN inp.garbage \o inp.frame \o inp.rest
                                       ELSE <<>>]
    /\ readerPc = [p \in Ports |-> IF p = 0 THEN "top" ELSE "off"]

NextDispatch ==
    \/ ReaderEnter(0)
    \/ ReaderHeader(0)
    \/ \E hl \in DispatchHops : ReaderParsed(0, hl)
    \/ ReaderNoDestination(0)
    \/ ReaderSkip(0)
    \/ ReaderAccept(0)
    \/ ReaderPushProto(0)
    \/ ReaderPushTraffic(0)

SpecDispatch == InitDispatch /\ [][NextDispatch]_vars

\* The step in which the reader of port p pushes its frame, of the queue
\* class class, to the next candidate.
PushStep(p, class) ==
    /\ readerPc[p] = "push"
    /\ readerPc'[p] # "push"
    /\ QueueClass(cur[p].type) = class

\* A push of the reader of port p to a full protoOut fails: the queue and
\* txProtoSuccessful are as before, txProtoDropped is one more, and the
\* frame counts as not sent.
ProtoPushWhenFull(p) ==
    LET d == Head(hops[p])
    IN  PushStep(p, "proto") /\ Len(protoOut[d]) >= ProtoCap =>
            /\ protoOut'[d] = protoOut[d]
            /\ ~sent'[p]
            /\ statistics'[d].txProtoDropped = statistics[d].txProtoDropped + 1
            /\ statistics'[d].txProtoSuccessful = statistics[d].txProtoSuccessful

\* C7: a protocol frame pushed to a peer whose protoOut is full is dropped:
\* the push fails, the queued frames stay as they are, txProtoDropped of the
\* peer goes up by one and txProtoSuccessful does not change.
C7_ProtoPushWhenFull == [][\A p \in Ports : ProtoPushWhenFull(p)]_vars

\* C7 happens: a protocol frame has been pushed to the full protoOut of the
\* peer on port 1.
C7_Witness ==
    /\ last.op = "push" /\ last.class = "proto" /\ last.to = 1
    /\ Len(last.before) = ProtoCap
    /\ ~last.ok
    /\ protoOut[1] = last.before

\* A push of the reader of port p to a trafficOut at capacity evicts the
\* oldest frame, makes the new frame the top, leaves the length at capacity
\* and adds one to txTrafficDropped.
TrafficPushAtCapacity(p) ==
    LET d == Head(hops[p])
    IN  PushStep(p, "traffic") /\ Len(trafficOut[d]) = TrafficCap =>
            /\ trafficOut'[d] = Append(Tail(trafficOut[d]), cur[p])
            /\ LifoPop(trafficOut'[d]).frame = cur[p]
            /\ Len(trafficOut'[d]) = TrafficCap
            /\ statistics'[d].txTrafficDropped = statistics[d].txTrafficDropped + 1

\* C8: a traffic frame pushed to a peer whose trafficOut is at capacity
\* evicts the oldest frame and becomes the top, the length stays at
\* capacity, and txTrafficDropped of the peer goes up by exactly one.
C8_TrafficPushEvicts == [][\A p \in Ports : TrafficPushAtCapacity(p)]_vars


(***************************************************************************)
(* SpecAnn: the announcement slot of the peer on port 1 while the tree     *)
(* hands it the announcements received from the remote, time passes, the   *)
(* peer is disconnected, its goroutines end and the port is connected      *)
(* again.                                                                  *)
(***************************************************************************)
InitAnn ==
    /\ InitConnected
    /\ protoOut = [p \in Ports |-> <<>>]
    /\ trafficOut = [p \in Ports |-> <<>>]
    /\ stream = [p \in Ports |-> <<>>]
    /\ input = [p \in Ports |-> NoInput]
    /\ readerPc = [p \in Ports |-> IF p = 1 THEN "top" ELSE "off"]

\* The steps of the goroutines of port 1 that take them to their end, and
\* the hand-over of the announcement of Peer.start to the writer.
AnnTaskStep ==
    \/ ReaderExit(1)
    \/ \E k \in Selects : WriterExit(1, k)
    \/ \E k \in Selects : WriterTakeAnn(1, k)
    \/ WriterSend(1)
    \/ AnnouncerLock(1)
    \/ AnnouncerExit(1)
    \/ StartAnnounce(1)
    \/ StartReturn(1)

\* Time passes in steps that take the age of an announcement to one below
\* the timeout, to the timeout and beyond it.
TickSteps == {(announcementTimeout - 1) \div 2, (announcementTimeout + 1) \div 2}

NextAnn ==
    \/ \E new \in RemoteAnns : UpdateAnnouncement(1, new)
    \/ \E d \in TickSteps : Tick(d)
    \/ CallSeenRecently(1)
    \/ ExtDisconnect(1)
    \/ StopStep(1)
    \/ AnnTaskStep
    \/ Start(1, 9, NoInput)

SpecAnn == InitAnn /\ [][NextAnn]_vars

\* The slot of port p holds the announcement ann received at the time at,
\* with the coordinates it gives the key of the peer.
SlotHolds(p, ann, at) ==
    /\ PeerCoords(ann, public[p]).ok
    /\ announcement[p] = AnnWithTime(ann, at)
    /\ coords[p] = PeerCoords(ann, public[p]).coords

\* alive changes only as start and updateAnnouncement say: a start leaves
\* it false, and it becomes true only in a step that stores a valid
\* announcement, received now, and its coordinates.
AliveStep(p) ==
    /\ nStart'[p] # nStart[p] => ~alive'[p]
    /\ ~alive[p] /\ alive'[p] =>
          /\ announcement'[p] # NoAnn
          /\ announcement'[p].at = now
          /\ PeerCoords(announcement'[p].ann, public[p]).ok
          /\ coords'[p] = PeerCoords(announcement'[p].ann, public[p]).coords

\* What the last call of updateAnnouncement has done: for an announcement
\* with valid coordinates for the key of the peer, alive is true and the
\* announcement, its time and the coordinates are stored; for any other,
\* alive is false and both are cleared.
UpdateDone ==
    last.op = "updateAnnouncement" =>
        LET c == PeerCoords(last.new, last.key)
        IN  /\ last.alive <=> c.ok
            /\ c.ok => /\ last.announcement = AnnWithTime(last.new, last.at)
                       /\ last.coords = c.coords
            /\ ~c.ok => last.announcement = NoAnn /\ last.coords = NoCoords

\* C9: a peer is alive only after a valid announcement received since its
\* start: start sets alive to false, updateAnnouncement sets it to true and
\* stores the announcement, its time and the coordinates iff the
\* announcement gives the peer's key valid coordinates, and else sets it to
\* false and clears both.
C9_AliveAfterValidAnnouncement ==
    /\ [][\A p \in Ports : AliveStep(p)]_vars
    /\ [](UpdateDone)
    /\ [](\A p \in Ports :
              alive[p] => announcement[p] # NoAnn
                          /\ SlotHolds(p, announcement[p].ann, announcement[p].at))

\* C9 happens: the peer on port 1, connected for the second time, is alive
\* by a valid announcement that updateAnnouncement has stored since.
C9_Witness ==
    /\ nStart[1] = 2 /\ started[1] /\ alive[1]
    /\ last.op = "updateAnnouncement" /\ last.port = 1 /\ last.alive
    /\ announcement[1] = AnnWithTime(last.new, last.at)

\* The slot of port p holds an announcement younger than the timeout.
Fresh(p) ==
    announcement[p] # NoAnn /\ now - announcement[p].at < announcementTimeout

\* What the call of SeenRecently recorded in e has returned.
SeenRecentlyDone(e) ==
    e.op = "SeenRecently" =>
        (e.result <=> e.started /\ e.announcement # NoAnn
                      /\ e.now - e.announcement.at < announcementTimeout)

\* C10 as stated: SeenRecently is true iff the peer has a last announcement
\* and its age is below announcementTimeout.
C10_SeenRecentlyIffFresh ==
    \A p \in Ports : SeenRecently(p) <=> Fresh(p)

\* C10 amended: SeenRecently is true iff the peer is started, has a last
\* announcement and its age is below announcementTimeout.
C10_SeenRecentlyIffStartedFresh ==
    /\ \A p \in Ports : SeenRecently(p) <=> started[p] /\ Fresh(p)
    /\ SeenRecentlyDone(last)

\* C10 happens: SeenRecently has returned false for the started peer on
\* port 1 whose announcement has just reached the age of the timeout.
C10_Witness ==
    /\ last.op = "SeenRecently" /\ last.port = 1 /\ ~last.result
    /\ last.started /\ last.announcement # NoAnn
    /\ last.now - last.announcement.at = announcementTimeout


\* C11: when a peer is stopped all its statistics counters are reset: the
\* step that completes Peer.stop leaves every counter of the peer at zero.
C11_StopResetsStatistics ==
    [][\A p \in Ports : nClose'[p] # nClose[p] => statistics'[p] = ZeroStatistics]_vars


(***************************************************************************)
(* The frame codec with the 10-byte header, as types/frame_test.go expects *)
(* its bytes and as the dissector reads them.                              *)
(***************************************************************************)
\* The largest number of ports in a coordinate list of a tested frame.
MaxCoords == 2

\* header_size of the dissector: magic, version, type, extra, frame length.
header_size == 10

\* [2] = "Tree Routed", [3] = "Bootstrap", [4] = "SNEK Routed".
TypeTreeRouted == 2
TypeVirtualSnakeBootstrap == 3
TypeVirtualSnakeRouted == 4

\* binary.BigEndian.PutUint16
PutUint16(n) == <<(n \div 256) % 256, n % 256>>

\* buffer(i, n) of the dissector: n bytes from the 0-based offset i.
Buffer(b, i, n) == SubSeq(b, i + 1, i + n)

\* A public key as its PublicKeySize bytes.
KeyBytes(k) == [i \in 1 .. PublicKeySize |-> k]

\* Varu64.MarshalBinary: 7-bit groups, the most significant first, the
\* continuation bit on every byte but the last (5000 is 167, 8).
Varu64Bytes(n) ==
    LET RECURSIVE Groups(_)
        Groups(m) == IF m < 128 THEN <<m + 128>>
                     ELSE Groups(m \div 128) \o <<(m % 128) + 128>>
    IN  IF n < 128 THEN <<n>> ELSE Groups(n \div 128) \o <<n % 128>>

\* Coordinates as they are written: the varints of the ports one after the
\* other, after the 2-byte count of their bytes.
MarshalCoords(c) ==
    LET RECURSIVE PortsBytes(_)
        PortsBytes(r) == IF r = <<>> THEN <<>>
                         ELSE Varu64Bytes(Head(r)) \o PortsBytes(Tail(r))
    IN  PutUint16(Len(PortsBytes(c))) \o PortsBytes(c)

\* The value written into the frame length field of a frame of total bytes.
FrameLengthAfterHeader(total) == total - header_size

FrameLength(total) == total

\* Frame.MarshalBinary, by the bytes the tests expect: the header, the
\* payload length, the type's fields and the payload.
MarshalBinary(f) ==
    LET wm == f.watermark.key \o Varu64Bytes(f.watermark.seq)
        body == CASE f.type = TypeTreeRouted ->
                       MarshalCoords(f.destination) \o MarshalCoords(f.source)
                  [] f.type = TypeVirtualSnakeBootstrap -> f.destinationKey \o wm
                  [] f.type = TypeVirtualSnakeRouted ->
                       f.destinationKey \o f.sourceKey \o wm
        total == header_size + 2 + Len(body) + Len(f.payload)
    IN  FrameMagicBytes \o <<f.version, f.type, 0, 0>> \o PutUint16(FrameLength(total))
            \o PutUint16(Len(f.payload)) \o body \o f.payload

\* varu64 of the dissector on the bytes b from the 1-based index i: the
\* number n and the count l of the bytes read, at most 10. bit32.lshift
\* keeps 32 bits: the 25 low bits of n are the ones that stay.
RECURSIVE varu64(_, _, _, _)
varu64(b, i, n, l) ==
    IF l >= 10 \/ i > Len(b) THEN [n |-> n, l |-> l]
    ELSE LET m == ((n % 33554432) * 128) + (b[i] % 128)
         IN  IF b[i] < 128 THEN [n |-> m, l |-> l + 1]
             ELSE varu64(b, i + 1, m, l + 1)

\* A decoder that takes every byte for one port.
coordsByByte(b) == b

\* coords of the dissector: the ports of a run of varints.
RECURSIVE coordsOf(_)
coordsOf(b) ==
    IF b = <<>> THEN <<>>
    ELSE LET v == varu64(b, 1, 0, 0)
         IN  <<v.n>> \o coordsOf(SubSeqFrom(b, v.l + 1))

\* do_pinecone_length: the length of the whole frame, from its first
\* header_size bytes.
do_pinecone_length(b) == Uint16(b[9], b[10])

\* The frame with the fields a type does not carry.
EmptyFrame(v, t) ==
    [version |-> v, type |-> t, destination |-> <<>>, source |-> <<>>,
     destinationKey |-> KeyBytes(0), sourceKey |-> KeyBytes(0),
     watermark |-> [key |-> KeyBytes(0), seq |-> 0], payload |-> <<>>]

\* do_pinecone_dissect: the fields of a frame, by its type.
do_pinecone_dissect(b) ==
    LET ftype == b[6]
        plen == Uint16(b[11], b[12])
        base == EmptyFrame(b[5], ftype)
        at == header_size + 2
    IN  IF ftype = 3
        THEN LET seq == varu64(b, at + 65, 0, 0)
             IN  [base EXCEPT !.destinationKey = Buffer(b, at, 32),
                              !.watermark = [key |-> Buffer(b, at + 32, 32), seq |-> seq.n],
                              !.payload = Buffer(b, at + 64 + seq.l, plen)]
        ELSE IF ftype \in {4, 5, 6}
        THEN LET seq == varu64(b, at + 97, 0, 0)
             IN  [base EXCEPT !.destinationKey = Buffer(b, at, 32),
                              !.sourceKey = Buffer(b, at + 32, 32),
                              !.watermark = [key |-> Buffer(b, at + 64, 32), seq |-> seq.n],
                              !.payload = Buffer(b, at + 96 + seq.l, plen)]
        ELSE LET dlen == Uint16(b[at + 1], b[at + 2])
                 slen == Uint16(b[at + 3 + dlen], b[at + 4 + dlen])
             IN  [base EXCEPT !.destination = coordsOf(Buffer(b, at + 2, dlen)),
                              !.source = coordsOf(Buffer(b, at + 4 + dlen, slen)),
                              !.payload = Buffer(b, at + 4 + dlen + slen, plen)]

\* The frames that are marshalled: ports of one and of two bytes, sequences
\* of one and of two bytes, payloads of up to two bytes.
CodecFrames ==
    LET CodecCoords == SeqsUpTo({1, 200, 5000}, MaxCoords)
        CodecSeqs == {0, 100, 300}
        CodecPayloads == {<<>>, <<9>>, <<65, 66>>}
    IN  {[EmptyFrame(Version0, TypeTreeRouted) EXCEPT
              !.destination = d, !.source = c, !.payload = pl] :
            d \in CodecCoords, c \in CodecCoords, pl \in CodecPayloads}
        \cup {[EmptyFrame(Version0, TypeVirtualSnakeBootstrap) EXCEPT
              !.destinationKey = KeyBytes(dk),
              !.watermark = [key |-> KeyBytes(wk), seq |-> q], !.payload = pl] :
            dk \in Keys, wk \in Keys, q \in CodecSeqs, pl \in CodecPayloads}
        \cup {[EmptyFrame(Version0, TypeVirtualSnakeRouted) EXCEPT
              !.destinationKey = KeyBytes(dk), !.sourceKey = KeyBytes(sk),
              !.watermark = [key |-> KeyBytes(wk), seq |-> q], !.payload = pl] :
            dk \in Keys, sk \in Keys, wk \in {9}, q \in CodecSeqs, pl \in CodecPayloads}

InitCodec ==
    /\ InitBase
    /\ stream = [p \in Ports |-> <<>>]
    /\ input = [p \in Ports |-> NoInput]
    /\ readerPc = [p \in Ports |-> "off"]

\* The frame f is given to the writer of port 1.
CodecFrame(f) ==
    /\ last = NoEvent
    /\ wframe' = [wframe EXCEPT ![1] = f]
    /\ last' = [op |-> "frame"]
    /\ UNCHANGED <<peerVars, queueVars, annVars, readerVars, writerPc,
                   announcerVars, discPc, histVars>>
    /\ UNCHANGED <<dhtVars, simVars>>

\* frame.MarshalBinary(buf): buf[:n] are the bytes written.
CodecMarshal ==
    /\ last.op = "frame"
    /\ stream' = [stream EXCEPT ![1] = MarshalBinary(wframe[1])]
    /\ last' = [op |-> "marshal", n |-> Len(stream'[1])]
    /\ UNCHANGED <<started, alive, cancelled, connClosed, connState, input,
                   queueVars, annVars, readerVars, writerVars, announcerVars,
                   discPc, histVars>>
    /\ UNCHANGED <<dhtVars, simVars>>

\* The n bytes are read back into a frame.
CodecUnmarshal ==
    /\ last.op = "marshal"
    /\ cur' = [cur EXCEPT ![1] = do_pinecone_dissect(stream[1])]
    /\ last' = [op |-> "unmarshal", n |-> do_pinecone_length(stream[1])]
    /\ UNCHANGED <<peerVars, queueVars, annVars, readerPc, hops, sent,
                   writerVars, announcerVars, discPc, histVars>>
    /\ UNCHANGED <<dhtVars, simVars>>

NextCodec ==
    \/ \E f \in CodecFrames : CodecFrame(f)
    \/ CodecMarshal
    \/ CodecUnmarshal

SpecCodec == InitCodec /\ [][NextCodec]_vars

\* C12 (as stated): the frame length field of a marshalled frame is the
\* number of bytes after the 10-byte header, the total length minus 10.
C12_FrameLenAfterHeader ==
    last.op = "marshal" => do_pinecone_length(stream[1]) = Len(stream[1]) - header_size

\* C12 (amended): the frame length field of a marshalled frame is the total
\* number of bytes written, the 10-byte header included.
C12_FrameLenIsTotal ==
    last.op = "marshal" => do_pinecone_length(stream[1]) = Len(stream[1])

\* A Tree Routed frame with a two-byte port in its destination has been
\* marshalled.
C12_Witness ==
    /\ last.op = "marshal"
    /\ wframe[1].type = TypeTreeRouted
    /\ \E i \in 1 .. Len(wframe[1].destination) : wframe[1].destination[i] = 5000
    /\ wframe[1].payload # <<>>

\* C13: unmarshalling the bytes marshal wrote gives a frame with the same
\* version, type, coordinates (port by port), keys and payload.
C13_RoundTrip ==
    last.op = "unmarshal" =>
        /\ cur[1].version = wframe[1].version
        /\ cur[1].type = wframe[1].type
        /\ cur[1].destination = wframe[1].destination
        /\ cur[1].source = wframe[1].source
        /\ cur[1].destinationKey = wframe[1].destinationKey
        /\ cur[1].sourceKey = wframe[1].sourceKey
        /\ cur[1].payload = wframe[1].payload

\* A Tree Routed frame whose destination takes more bytes than it has ports
\* has been marshalled and read back.
C13_Witness ==
    /\ last.op = "unmarshal"
    /\ wframe[1].type = TypeTreeRouted
    /\ Len(wframe[1].destination) = MaxCoords
    /\ Len(MarshalCoords(wframe[1].destination)) > 2 + MaxCoords
    /\ wframe[1].source # <<>>
    /\ wframe[1].payload # <<>>

(***************************************************************************)
(* The announcers of two peers and the tree's broadcasts: port 1 (key 9)   *)
(* is connected, port 2 (key 3) is connected later, the tree changes       *)
(* between the node's own root and the root it has from port 1, and the    *)
(* writers take the announcements.                                         *)
(***************************************************************************)
\* The ports of the node's parent: the peer whose signature is the last one
\* of the root announcement; none when the node is the root itself.
Parent ==
    IF treeRoot.sigs = <<>> THEN NoPort
    ELSE {p \in RemotePorts :
            started[p] /\ public[p] = treeRoot.sigs[Len(treeRoot.sigs)].key}

NextTree ==
    \/ \E r \in Roots : TreeChange(r)
    \/ \E p \in RemotePorts : AnnouncerLock(p)
    \/ \E p \in RemotePorts : AnnouncerWait(p)
    \/ \E p \in RemotePorts : AnnouncerWoken(p)
    \/ \E p \in RemotePorts : AnnouncerSent(p)
    \/ \E p \in RemotePorts, k \in Selects : WriterTakeAnn(p, k)
    \/ \E p \in RemotePorts : WriterDefault1(p)
    \/ \E p \in RemotePorts : WriterDefault2(p)
    \/ \E p \in RemotePorts : WriterSend(p)
    \/ Start(2, 3, NoInput)
    \/ StartAnnounce(2)
    \/ StartReturn(2)

SpecTree == InitAnn /\ [][NextTree]_vars

\* C14: on a tree-changed broadcast no announcement is handed to the writer
\* of the node's parent: an announcer that has been woken offers an
\* announcement only on a port that is not the parent's.
C14_NoAnnouncementToParent ==
    [][\A p \in RemotePorts :
          (announcerPc[p] = "woken" /\ announcerPc'[p] = "send") => p \notin Parent]_vars

(***************************************************************************)
(* SpecSign: the announcers of SpecTree while the tree also takes a root   *)
(* announcement that has come back to the node with the node's own         *)
(* signature in it.                                                        *)
(***************************************************************************)
\* A root announcement of the node with key 9 that the router has signed
\* for its port 1 and that has come back over the node with key 3.
LoopRoot == Ann(9, 2, <<Sig(2, 9), Sig(1, RouterKey), Sig(1, 3)>>)

NextSign ==
    \/ TreeChange(LoopRoot)
    \/ NextTree

SpecSign == InitAnn /\ [][NextSign]_vars

\* The root announcement holds a signature of the router.
OwnSignature ==
    \E i \in 1 .. Len(treeRoot.sigs) : treeRoot.sigs[i].key = RouterKey

\* The step hands a new announcement to the announce channel of port p.
Emits(p) == Len(announce'[p]) > Len(announce[p])

\* The step is one in which the announcer or the starter of port p has
\* called generateAnnouncement.
Generates(p) ==
    \/ announcerPc[p] = "woken" /\ announcerPc'[p] # "woken"
    \/ starterPc[p] = "gen" /\ starterPc'[p] # "gen"

\* What an emission on port p carries: an STP frame with the root
\* announcement of the time and one more signature, of the router for p.
EmitsSigned(p) ==
    Emits(p) =>
        LET f == announce'[p][Len(announce'[p])].frame
            a == f.payload
        IN  /\ p # 0
            /\ f.type = "STP" /\ f.version = Version0
            /\ a.root = treeRoot.root /\ a.seq = treeRoot.seq
            /\ Len(a.sigs) = Len(treeRoot.sigs) + 1
            /\ SubSeq(a.sigs, 1, Len(treeRoot.sigs)) = treeRoot.sigs
            /\ a.sigs[Len(a.sigs)] = Sig(p, RouterKey)
            /\ Cardinality({i \in 1 .. Len(a.sigs) : a.sigs[i].key = RouterKey}) = 1

\* C21: every announcement emitted on a port p is the root announcement of
\* the time with exactly one signature appended, the router's for p, and
\* holds the router's key exactly once; generateAnnouncement emits nothing
\* for port 0 and nothing when the root announcement holds the router's key.
C21_SignedOnce ==
    /\ [][\A p \in Ports :
              /\ EmitsSigned(p)
              /\ Generates(p) /\ OwnSignature => ~Emits(p)]_vars
    /\ [](generateAnnouncement(0) = NoFrame)
    /\ [](OwnSignature => \A p \in Ports : generateAnnouncement(p) = NoFrame)

\* C21 happens: the writer of port 2 has taken the announcement emitted for
\* port 2, the root announcement the node has from port 1 with the router's
\* signature for port 2 as the second one, and the tree has since taken the
\* announcement that holds the router's key, for which the announcer of
\* port 1, woken, has emitted nothing.
C21_Witness ==
    /\ treeRoot = LoopRoot
    /\ wframe[2] # NoFrame
    /\ wframe[2].payload.sigs = <<Sig(1, 9), Sig(2, RouterKey)>>
    /\ announcerPc[2] = "wait"
    /\ last.op = "generate" /\ last.port = 1 /\ last.by = "announcer"
    /\ last.root = LoopRoot /\ last.frame = NoFrame
    /\ announce[1] = <<>> /\ announcerPc[1] = "loop" /\ advLock = {1}

(***************************************************************************)
(* Forwarding while the destination is stopped (SpecWriter): the checks of *)
(* the reader on a candidate and its push are two steps, and the calls of  *)
(* Peer.stop on the candidate run between them.                            *)
(***************************************************************************)
\* The port d takes frames: its peer is started and, unless it is the local
\* port, alive.
Live(d) == started[d] /\ (d # 0 => alive[d])

\* C22: at the moment the reader of a port pushes a frame to a destination
\* port, the peer of that port is started and, if the port is not the local
\* port 0, alive, however the forwarding interleaves with Peer.stop.
C22_PushToLivePort ==
    [][\A p \in Ports :
          (readerPc[p] = "push" /\ readerPc'[p] # "push") => Live(Head(hops[p]))]_vars

(***************************************************************************)
(* SpecForward: the reader of the local port 0 or of the peer on port 1    *)
(* dispatches one frame, of any type, to the candidates getNextHops        *)
(* returns, while port 2 is connected with the key of port 1 or another    *)
(* one and the tree hands it announcements.  No writer drains the queues;  *)
(* the queues of port 1 are empty or full.                                 *)
(***************************************************************************)
\* The type bytes of the frames: every types.FrameType.
ForwardTypes == 0 .. 11

\* A frame of the type byte tb with empty coordinates and payload, of the
\* length the reader expects for its type.
ForwardBytes(tb) ==
    LET h == FrameMagicBytes \o <<Version0, tb, 0, 0, 0, 0, 0, 0>>
    IN  h \o [i \in 1 .. Expecting(h) - 12 |-> 0]

\* A protoOut that holds as many frames as it takes.
FullProtoOut == [i \in 1 .. ProtoCap |-> Frame(Version0, "DHTRequest", <<i>>)]

\* A trafficOut at capacity.
FullTrafficOut == [i \in 1 .. TrafficCap |-> Frame(Version0, "Greedy", <<i>>)]

InitForward ==
    /\ InitConnected
    /\ \E full \in BOOLEAN :
          /\ protoOut = [p \in Ports |-> IF p = 1 /\ full THEN FullProtoOut ELSE <<>>]
          /\ trafficOut = [p \in Ports |-> IF p = 1 /\ full THEN FullTrafficOut ELSE <<>>]
    /\ \E tb \in ForwardTypes, from \in {0, 1} :
          /\ input = [p \in Ports |-> IF p = from
                                       THEN Input(<<>>, ForwardBytes(tb), <<>>)
                                       ELSE NoInput]
          /\ stream = [p \in Ports |-> IF p = from THEN ForwardBytes(tb) ELSE <<>>]
    /\ readerPc = [p \in Ports |-> IF p \in {0, 1} THEN "top" ELSE "off"]

NextForward ==
    \/ \E key \in {3, 9} : Start(2, key, NoInput)
    \/ \E new \in RemoteAnns : UpdateAnnouncement(2, new)
    \/ \E p \in {0, 1} : ReaderEnter(p)
    \/ \E p \in {0, 1} : ReaderHeader(p)
    \/ \E p \in {0, 1}, hl \in HopLists : ReaderParsed(p, hl)
    \/ \E p \in {0, 1} : ReaderNoDestination(p)
    \/ \E p \in {0, 1} : ReaderSkip(p)
    \/ \E p \in {0, 1} : ReaderAccept(p)
    \/ \E p \in {0, 1} : ReaderPushProto(p)
    \/ \E p \in {0, 1} : ReaderPushTraffic(p)
    \/ \E p \in {0, 1}, signed \in BOOLEAN : ReaderPushPathfind(p, signed)

SpecForward == InitForward /\ [][NextForward]_vars

\* The step pushes the frame of the reader of port p onto the queue kind
\* ("proto" or "traffic") of the port d and onto no other queue, and adds
\* one to the matching counter of d and to no other.
PushesTo(p, d, kind) ==
    /\ readerPc[p] = "push" /\ Head(hops[p]) = d
    /\ IF kind = "proto"
       THEN /\ protoOut' = [protoOut EXCEPT ![d] = Append(@, cur[p])]
            /\ trafficOut' = trafficOut
            /\ statistics' = [statistics EXCEPT ![d].txProtoSuccessful = @ + 1]
       ELSE /\ trafficOut' = [trafficOut EXCEPT ![d] = LifoPush(@, cur[p]).q]
            /\ protoOut' = protoOut
            /\ statistics' = [statistics EXCEPT ![d].txTrafficSuccessful = @ + 1]

\* C23: a frame goes onto protoOut only if it is a bootstrap, bootstrap-ACK,
\* setup, teardown or DHT request or response frame, and onto trafficOut
\* only if it is a greedy, source routed, SNEK routed or pathfind frame;
\* the push that succeeds adds one to txProtoSuccessful, or to
\* txTrafficSuccessful, of the destination and changes no other counter.
C23_QueuedByClass ==
    [][\A d \in Ports :
          /\ protoOut'[d] # protoOut[d] =>
                \E p \in Ports :
                    /\ PushesTo(p, d, "proto")
                    /\ cur[p].type \in {"VirtualSnakeBootstrap", "VirtualSnakeBootstrapACK",
                                        "VirtualSnakeSetup", "VirtualSnakeTeardown",
                                        "DHTRequest", "DHTResponse"}
          /\ trafficOut'[d] # trafficOut[d] =>
                \E p \in Ports :
                    /\ PushesTo(p, d, "traffic")
                    /\ cur[p].type \in {"Greedy", "Source", "VirtualSnake",
                                        "Pathfind", "VirtualSnakePathfind"}]_vars

\* C23 happens: a pathfind frame received on port 1 has been pushed to
\* trafficOut of port 2, whose txTrafficSuccessful is one and whose protoOut
\* is empty.
C23_Witness ==
    /\ last.op = "push" /\ last.port = 1 /\ last.to = 2 /\ last.ok
    /\ last.frame.type \in PathfindTypes
    /\ trafficOut[2] = <<last.frame>> /\ protoOut[2] = <<>>
    /\ statistics[2] = [ZeroStatistics EXCEPT !.txTrafficSuccessful = 1]

\* The number of the candidates the frame of the reader of port p has been
\* sent to.
SentTo(t) == Cardinality({i \in 1 .. Len(t) : t[i].what = "sent"})

\* The step ends the dispatch of the frame of the reader of port p.
DispatchEnds(p) == readerPc[p] \in {"check", "push"} /\ readerPc'[p] = "top"

\* The dispatch of a frame ends in one of two ways: the frame has gone to
\* one candidate, the last one that was tried, and rxDroppedNoDestination
\* is as before; or it has gone to none, and rxDroppedNoDestination is one
\* more.
OneOutcome(p) ==
    LET before == statistics[p].rxDroppedNoDestination
        after == statistics'[p].rxDroppedNoDestination
    IN  /\ DispatchEnds(p) =>
              \/ /\ SentTo(tried'[p]) = 1
                 /\ tried'[p][Len(tried'[p])].what = "sent"
                 /\ after = before
              \/ /\ SentTo(tried'[p]) = 0
                 /\ after = before + 1
                 /\ protoOut' = protoOut /\ trafficOut' = trafficOut
        /\ ~DispatchEnds(p) => after = before

\* A queue changes in the step exactly when a reader records that its frame
\* was sent, to the port of that queue, and one queue of one port changes.
QueueChangeIsSent ==
    LET changed == {d \in Ports : protoOut'[d] # protoOut[d] \/ trafficOut'[d] # trafficOut[d]}
        senders == {p \in Ports : SentTo(tried'[p]) > SentTo(tried[p])}
    IN  /\ changed # {} <=> senders # {}
        /\ Cardinality(changed) <= 1
        /\ \A d \in changed : protoOut'[d] = protoOut[d] \/ trafficOut'[d] = trafficOut[d]
        /\ \A p \in senders : changed = {tried'[p][Len(tried'[p])].port}

\* C24: a received frame that parses with version 0 is pushed onto the
\* queue of exactly one port, the first candidate in order that passes the
\* checks and whose push succeeds, after which no candidate is tried, or it
\* is pushed nowhere and rxDroppedNoDestination of the ingress peer goes up
\* by exactly one.
C24_OneOutcome ==
    [][QueueChangeIsSent /\ \A p \in Ports : OneOutcome(p)]_vars

\* C24 happens: a protocol frame from the local port has found protoOut of
\* port 1 full and has gone to port 2; nothing was counted as dropped for
\* want of a destination.
C24_Witness ==
    /\ tried[0] = <<Tried(1, "not sent"), Tried(2, "sent")>>
    /\ readerPc[0] = "peek"
    /\ protoOut[1] = FullProtoOut /\ Len(protoOut[2]) = 1
    /\ statistics[1].txProtoDropped = 1
    /\ statistics[0].rxDroppedNoDestination = 0

\* C25: a frame received on a port other than port 0 is pushed to port 0 or
\* to a port other than the one it came from whose peer has another key
\* than the peer it came from.
C25_NotBackToSender ==
    [][\A p \in RemotePorts :
          (readerPc[p] = "push" /\ readerPc'[p] # "push" /\ Head(hops[p]) # 0)
              => /\ Head(hops[p]) # p
                 /\ public[Head(hops[p])] # public[p]]_vars

\* C25 happens: the reader of port 1 has passed over port 1 itself and has
\* sent its frame to port 2, whose peer has another key.
C25_Witness ==
    /\ tried[1] = <<Tried(1, "skipped"), Tried(2, "sent")>>
    /\ public[2] # public[1]
    /\ Len(protoOut[2]) + Len(trafficOut[2]) = 1

(***************************************************************************)
(* alive and started under start, stop and updateAnnouncement (SpecAnn).   *)
(***************************************************************************)
\* C26: alive implies started, however start, stop and updateAnnouncement
\* interleave: a peer that has been stopped, with no call of Peer.stop
\* still under way, is not left with alive = true.
C26_StoppedNotAlive ==
    \A p \in Ports :
        (~started[p] /\ \A c \in Callers : discPc[p][c] = "idle") => ~alive[p]

(***************************************************************************)
(* SpecRestart: Peer.start and Peer.stop called one after the other on the *)
(* slot of port 1.  Peer.stop returns once it has cancelled the context    *)
(* and closed the connection; it does not wait for the goroutines.  A      *)
(* goroutine of an earlier start that still runs when the slot is started  *)
(* again is counted in orphans until it returns.                           *)
(***************************************************************************)
\* The goroutine t of the present start of the slot p has not returned.
TaskRuns(p, t) ==
    CASE t = "reader" -> readerPc[p] \notin {"off", "done"}
      [] t = "writer" -> writerPc[p] \notin {"off", "done"}
      [] t = "announcer" -> announcerPc[p] \notin {"off", "done"}

\* The number of goroutines t that run for the slot p.
Running(p, t) == (IF TaskRuns(p, t) THEN 1 ELSE 0) + orphans[p][t]

\* Peer.start on a started peer: the CAS fails, "switch peer is already
\* started", and nothing else happens.
StartAlready(p) ==
    /\ started[p]
    /\ last' = [op |-> "start", port |-> p, err |-> TRUE]
    /\ UNCHANGED <<peerVars, queueVars, annVars, readerVars, writerVars,
                   announcerVars, discPc, histVars>>
    /\ UNCHANGED <<dhtVars, simVars>>

\* Peer.start on a slot whose stop has returned while goroutines of the
\* earlier start have not: the CAS succeeds and the three goroutines are
\* spawned as in Start.  The announcer of the earlier start is in
\* advertise.Wait(), where the cancellation does not reach it.
Restart(p, key) ==
    /\ ~started[p]
    /\ nStart[p] > 0 /\ nStart[p] < MaxStarts
    /\ starterPc[p] = "idle"
    /\ \A c \in Callers : discPc[p][c] = "idle"
    /\ announcerPc[p] \in {"off", "done", "wait"}
    /\ \E t \in Tasks : TaskRuns(p, t)
    /\ orphans' = [orphans EXCEPT ![p] =
                       [t \in Tasks |-> @[t] + IF TaskRuns(p, t) THEN 1 ELSE 0]]
    /\ started' = [started EXCEPT ![p] = TRUE]
    /\ alive' = [alive EXCEPT ![p] = startAlive]
    /\ cancelled' = [cancelled EXCEPT ![p] = FALSE]
    /\ connClosed' = [connClosed EXCEPT ![p] = FALSE]
    /\ connState' = [connState EXCEPT ![p] = "ok"]
    /\ stream' = [stream EXCEPT ![p] = <<>>]
    /\ input' = [input EXCEPT ![p] = NoInput]
    /\ public' = [public EXCEPT ![p] = key]
    /\ announce' = [announce EXCEPT ![p] = <<>>]
    /\ protoOut' = [protoOut EXCEPT ![p] = <<>>]
    /\ trafficOut' = [trafficOut EXCEPT ![p] = <<>>]
    /\ readerPc' = [readerPc EXCEPT ![p] = "top"]
    /\ writerPc' = [writerPc EXCEPT ![p] = "sel1"]
    /\ announcerPc' = [announcerPc EXCEPT ![p] = "lock"]
    /\ starterPc' = [starterPc EXCEPT ![p] = "gen"]
    /\ nStart' = [nStart EXCEPT ![p] = @ + 1]
    /\ nDiscard' = [nDiscard EXCEPT ![p] = 0]
    /\ UNCHANGED last
    /\ UNCHANGED <<statistics, announcement, coords, treeRoot, advLock, now,
                   cur, hops, sent, wframe, discPc, nStopOk,
                   nStopErr, nCancel, nClose>>
    /\ UNCHANGED <<dhtVars, tried, peertype, sim>>

\* A goroutine of an earlier start returns.
OrphanReturn(p, t) ==
    /\ orphans[p][t] > 0
    /\ orphans' = [orphans EXCEPT ![p][t] = @ - 1]
    /\ UNCHANGED last
    /\ UNCHANGED <<peerVars, queueVars, annVars, readerVars, writerVars,
                   announcerVars, discPc, histVars>>
    /\ UNCHANGED <<dhtVars, tried, peertype, sim>>

NextRestart ==
    \/ Start(1, 9, NoInput)
    \/ StartAnnounce(1)
    \/ StartReturn(1)
    \/ StartAlready(1)
    \/ Restart(1, 9)
    \/ \E t \in Tasks : OrphanReturn(1, t)
    \/ ExtDisconnect(1)
    \/ StopStep(1)
    \/ ReaderExit(1)
    \/ ReaderEnter(1)
    \/ ReaderPeekError(1)
    \/ LifeWriterStep
    \/ AnnouncerStep(1)

SpecRestart == InitLife /\ [][NextRestart]_vars

\* C27: for every sequence of start and stop calls on a slot, at most one
\* reader, one writer and one announcer run for the slot at any time.
C27_OneTaskOfEachKind ==
    \A p \in Ports : \A t \in Tasks : Running(p, t) <= 1

(***************************************************************************)
(* SpecBlock: the announcers and the writers of the peers on ports 1 and 2 *)
(* while the tree broadcasts and the peer on port 1 is disconnected.       *)
(***************************************************************************)
\* The writer of port p, whose queues stay empty.
BlockWriterStep(p) ==
    \/ \E k \in Selects : WriterExit(p, k)
    \/ \E k \in Selects : WriterTakeAnn(p, k)
    \/ WriterDefault1(p)
    \/ WriterDefault2(p)
    \/ WriterSend(p)

NextBlock ==
    \/ TreeChange(OwnRoot)
    \/ \E p \in RemotePorts : AnnouncerStep(p)
    \/ \E p \in RemotePorts : BlockWriterStep(p)
    \/ Start(2, 3, NoInput)
    \/ StartAnnounce(2)
    \/ StartReturn(2)
    \/ ExtDisconnect(1)
    \/ StopStep(1)

\* Every goroutine is scheduled fairly, and a goroutine that asks for the
\* mutex of the condition, which is free again and again, gets it.
FairBlock ==
    /\ \A p \in RemotePorts :
          /\ WF_vars(BlockWriterStep(p))
          /\ WF_vars(AnnouncerStep(p))
          /\ SF_vars(AnnouncerLock(p) \/ AnnouncerWoken(p))
    /\ WF_vars(StartAnnounce(2) \/ StartReturn(2))
    /\ WF_vars(StopStep(1))

SpecBlock == InitAnn /\ [][NextBlock]_vars /\ FairBlock

\* C28: no announcer blocks for ever with the advertise lock in its hands:
\* an announcer that a broadcast has woken gets the lock and goes on, also
\* after another peer has been stopped and its writer is gone.
C28_WokenAnnouncerGoesOn ==
    \A q \in RemotePorts : (announcerPc[q] = "woken") ~> (announcerPc[q] # "woken")

(***************************************************************************)
(* SpecSim: the simulator's ConnectNodes and DisconnectNodes, called by    *)
(* two goroutines at a time for the nodes "a" and "b".  A wire is the      *)
(* number of its connection, 0 for nil; open holds the connections that    *)
(* were created and not closed.  The simulator does not use sockets.       *)
(***************************************************************************)
\* How many calls each of the callers makes.
MaxCalls == 2

SimCallers == {1, 2}
\* The names a caller passes; no node has the name "x".
SimNames == {"a", "b", "x"}
SimNodes == {"a", "b"}

\* A caller that is in no call.
SimIdle == [pc |-> "idle", a |-> "a", b |-> "a", conn |-> 0]

SimUnchanged ==
    UNCHANGED <<peerVars, queueVars, annVars, readerVars, writerVars,
                announcerVars, discPc, histVars, last, dhtVars, tried, orphans,
                peertype>>

\* NewSimulator and CreateNode for the two nodes.
SimCreate ==
    /\ sim = NoSim
    /\ sim' = [nodes |-> SimNodes,
               wires |-> [w \in SimNames \X SimNames |-> 0],
               open |-> {},
               made |-> 0,
               call |-> [c \in SimCallers |-> SimIdle],
               calls |-> [c \in SimCallers |-> 0],
               err |-> [c \in SimCallers |-> "none"]]
    /\ SimUnchanged

\* The caller c calls ConnectNodes(a, b) or DisconnectNodes(a, b).
SimCall(c, op, a, b) ==
    /\ sim # NoSim
    /\ sim.call[c].pc = "idle"
    /\ sim.calls[c] < MaxCalls
    /\ sim' = [sim EXCEPT !.call[c] = [pc |-> op, a |-> a, b |-> b, conn |-> 0],
                          !.calls[c] = @ + 1,
                          !.err[c] = "none"]
    /\ SimUnchanged

\* ConnectNodes up to the check of the wires: the error for a == b, for a
\* node that does not exist, and for a pair that has a wire; else the call
\* goes on.
ConnectNodesCheck(c) ==
    /\ sim # NoSim
    /\ sim.call[c].pc = "connect"
    /\ LET a == sim.call[c].a
           b == sim.call[c].b
           err == IF a = b THEN "invalid node pair"
                  ELSE IF a \notin sim.nodes \/ b \notin sim.nodes THEN "no such node"
                  ELSE IF sim.wires[<<a, b>>] # 0 \/ sim.wires[<<b, a>>] # 0
                       THEN "already connected"
                  ELSE "none"
       IN  sim' = IF err = "none"
                  THEN [sim EXCEPT !.call[c].pc = "pipe"]
                  ELSE [sim EXCEPT !.call[c] = SimIdle, !.err[c] = err]
    /\ SimUnchanged

\* pa, pb := net.Pipe() and the two goroutines that call Router.Connect: a
\* connection between the two nodes is created.
ConnectNodesPipe(c) ==
    /\ sim # NoSim
    /\ sim.call[c].pc = "pipe"
    /\ sim' = [sim EXCEPT
                  !.made = @ + 1,
                  !.open = @ \cup {[id |-> sim.made + 1,
                                     ends |-> {sim.call[c].a, sim.call[c].b}]},
                  !.call[c].conn = sim.made + 1,
                  !.call[c].pc = "register"]
    /\ SimUnchanged

\* register(pa): sim.wires[a][b] = conn under the write lock; the call
\* returns nil.
ConnectNodesRegister(c) ==
    /\ sim # NoSim
    /\ sim.call[c].pc = "register"
    /\ sim' = [sim EXCEPT
                  !.wires[<<sim.call[c].a, sim.call[c].b>>] = sim.call[c].conn,
                  !.call[c] = SimIdle]
    /\ SimUnchanged

\* DisconnectNodes up to the check of the wire it has found: wires[a][b],
\* or wires[b][a] when that is nil; "nodes not connected" when both are.
DisconnectNodesFind(c) ==
    /\ sim # NoSim
    /\ sim.call[c].pc = "disconnect"
    /\ LET a == sim.call[c].a
           b == sim.call[c].b
           first == IF sim.wires[<<a, b>>] # 0 THEN <<a, b>> ELSE <<b, a>>
       IN  sim' = IF sim.wires[first] = 0
                  THEN [sim EXCEPT !.call[c] = SimIdle, !.err[c] = "nodes not connected"]
                  ELSE [sim EXCEPT !.call[c] = [pc |-> "clear", a |-> first[1],
                                                b |-> first[2], conn |-> sim.wires[first]]]
    /\ SimUnchanged

\* sim.wires[firstIndex][secondIndex] = nil under the write lock, and
\* wire.Close() of the wire that was found.
DisconnectNodesClear(c) ==
    /\ sim # NoSim
    /\ sim.call[c].pc = "clear"
    /\ sim' = [sim EXCEPT
                  !.wires[<<sim.call[c].a, sim.call[c].b>>] = 0,
                  !.open = {w \in @ : w.id # sim.call[c].conn},
                  !.call[c] = SimIdle]
    /\ SimUnchanged

NextSim ==
    \/ SimCreate
    \/ \E c \in SimCallers, op \in {"connect", "disconnect"}, a, b \in SimNames :
          SimCall(c, op, a, b)
    \/ \E c \in SimCallers : ConnectNodesCheck(c)
    \/ \E c \in SimCallers : ConnectNodesPipe(c)
    \/ \E c \in SimCallers : ConnectNodesRegister(c)
    \/ \E c \in SimCallers : DisconnectNodesFind(c)
    \/ \E c \in SimCallers : DisconnectNodesClear(c)

SpecSim == InitLife /\ [][NextSim]_vars

\* C29: under any interleaving of ConnectNodes calls a pair of nodes has at
\* most one registered wire, wires[a][b] and wires[b][a] are never both
\* non-nil, and at most one connection that was created for the pair is
\* open.
C29_OneWirePerPair ==
    sim # NoSim =>
        \A a, b \in SimNodes :
            a # b =>
                /\ sim.wires[<<a, b>>] = 0 \/ sim.wires[<<b, a>>] = 0
                /\ Cardinality({w \in sim.open : w.ends = {a, b}}) <= 1

(***************************************************************************)
(* SpecPeers: the order of the type peers, a slice of pointers to peer     *)
(* slots, which sort.Sort uses through Less.  The slice is a sequence of   *)
(* ports; every slot has the peer type its connection was made with.       *)
(***************************************************************************)
PeerTypes == {PeerTypeMulticast, PeerTypeBluetooth, PeerTypeRemote}

\* The slices of two or more different slots.
PeerSlices ==
    {ps \in UNION {[1 .. n -> Ports] : n \in 2 .. Cardinality(Ports)} :
        \A i, j \in DOMAIN ps : i # j => ps[i] # ps[j]}

\* peers.Less: true when the type of p[i] is lower, and else whatever the
\* ports say.
Less(ps, i, j) ==
    IF peertype[ps[i]] < peertype[ps[j]] THEN TRUE
    ELSE ps[i] < ps[j]

\* A connection of the type t is put in the slot p.
ConnectPeerType(p, t) ==
    /\ peertype[p] # t
    /\ peertype' = [peertype EXCEPT ![p] = t]
    /\ UNCHANGED <<peerVars, queueVars, annVars, readerVars, writerVars,
                   announcerVars, discPc, histVars, last, dhtVars, tried, orphans,
                   sim>>

\* Less(i, j) and Less(j, i) are called on the slice ps, as a sort does.
CallLess(ps, i, j) ==
    /\ last' = [op |-> "Less",
                pi |-> ps[i], ti |-> peertype[ps[i]],
                pj |-> ps[j], tj |-> peertype[ps[j]],
                ij |-> Less(ps, i, j), ji |-> Less(ps, j, i)]
    /\ UNCHANGED <<peerVars, queueVars, annVars, readerVars, writerVars,
                   announcerVars, discPc, histVars, dhtVars, simVars>>

NextPeers ==
    \/ \E p \in Ports, t \in PeerTypes : ConnectPeerType(p, t)
    \/ \E ps \in PeerSlices : \E i, j \in DOMAIN ps : CallLess(ps, i, j)

SpecPeers == InitLife /\ [][NextPeers]_vars

\* C30: Less is a strict order by peer type and then port: Less(i, j) and
\* Less(j, i) are never both true, and a peer of a higher type is never
\* ordered before a peer of a lower type.
C30_StrictByTypeThenPort ==
    last.op = "Less" =>
        /\ ~(last.ij /\ last.ji)
        /\ last.ti > last.tj => ~last.ij

(***************************************************************************)
(* The read APIs of the router: DHTInfo and Peers.  The state of the SNEK  *)
(* is a heap of entries, the table from an index to a pointer (a position  *)
(* in the heap), and the two slots, each a pointer or nil.                 *)
(***************************************************************************)
\* The largest number of entries the state allocates.
MaxEntries == 2

virtualSnakeIndex(k, path) == [PublicKey |-> k, PathID |-> path]

virtualSnakeEntry(k, path, rk, rs) ==
    [PublicKey |-> k, PathID |-> path, RootPublicKey |-> rk, RootSequence |-> rs]

\* The keys and path identifiers of the entries, and the roots they were
\* set up under.
DHTIndices == {virtualSnakeIndex(3, 1), virtualSnakeIndex(3, 2), virtualSnakeIndex(9, 1)}

\* An entry is stale when its root key or its root sequence is not the one
\* of the root announcement ann.
Stale(v, ann) == v.RootPublicKey # ann.root \/ v.RootSequence # ann.seq

\* Router.DHTInfo inside phony.Block: the two slots as they are (pointers),
\* a copy of every entry of the table, and stale, which the loop raises by
\* one for an entry whose key is in the table more than once and by one for
\* an entry whose root differs from the announcement's.
DHTInfo ==
    LET ann == treeRoot
        table == [k \in DOMAIN dht.table |-> dht.heap[dht.table[k]]]
        dupes(key) == Cardinality({k \in DOMAIN dht.table : k.PublicKey = key})
        add(k) == (IF dupes(k.PublicKey) > 1 THEN 1 ELSE 0)
                  + (IF Stale(table[k], ann) THEN 1 ELSE 0)
        RECURSIVE Sum(_)
        Sum(S) == IF S = {} THEN 0
                  ELSE LET k == CHOOSE x \in S : TRUE IN add(k) + Sum(S \ {k})
    IN  [asc |-> dht.asc, desc |-> dht.desc, table |-> table,
         stale |-> Sum(DOMAIN dht.table)]

\* Router.Peers inside phony.Block: one PeerInfo for every started peer.
Peers ==
    [p \in {q \in Ports : started[q]} |->
        [Port |-> p, PublicKey |-> public[p],
         RootPublicKey |-> IF announcement[p] # NoAnn THEN announcement[p].ann.root
                           ELSE RouterKey]]

\* A caller calls DHTInfo and keeps what it returns.
CallDHTInfo ==
    /\ held.dht = <<>>
    /\ held' = [held EXCEPT !.dht = <<DHTInfo>>]
    /\ last' = [op |-> "DHTInfo", ann |-> treeRoot]
    /\ UNCHANGED <<peerVars, queueVars, annVars, readerVars, writerVars,
                   announcerVars, discPc, histVars, dht, net, simVars>>

\* A caller calls Peers and keeps what it returns.
CallPeers ==
    /\ held.peers = <<>>
    /\ held' = [held EXCEPT !.peers = <<Peers>>]
    /\ UNCHANGED last
    /\ UNCHANGED <<peerVars, queueVars, annVars, readerVars, writerVars,
                   announcerVars, discPc, histVars, dht, net, simVars>>

\* The state sets up a path: a new entry under the index k, with the root
\* of the time.
StateInsert(k) ==
    /\ Len(dht.heap) < MaxEntries
    /\ k \notin DOMAIN dht.table
    /\ dht' = [dht EXCEPT
                  !.heap = Append(@, virtualSnakeEntry(k.PublicKey, k.PathID, treeRoot.root, treeRoot.seq)),
                  !.table = [x \in DOMAIN @ \cup {k} |->
                                IF x = k THEN Len(dht.heap) + 1 ELSE @[x]]]
    /\ UNCHANGED last
    /\ UNCHANGED <<peerVars, queueVars, annVars, readerVars, writerVars,
                   announcerVars, discPc, histVars, held, net, simVars>>

\* The state tears a path down: the index leaves the table and the slots
\* that pointed to its entry become nil.
StateDelete(k) ==
    /\ k \in DOMAIN dht.table
    /\ dht' = [dht EXCEPT
                  !.table = [x \in DOMAIN @ \ {k} |-> @[x]],
                  !.asc = IF @ = dht.table[k] THEN NilEntry ELSE @,
                  !.desc = IF @ = dht.table[k] THEN NilEntry ELSE @]
    /\ UNCHANGED last
    /\ UNCHANGED <<peerVars, queueVars, annVars, readerVars, writerVars,
                   announcerVars, discPc, histVars, held, net, simVars>>

\* The state makes the entry of the index k its ascending or its descending
\* neighbour.
StateSetSlot(slot, k) ==
    /\ k \in DOMAIN dht.table
    /\ dht' = IF slot = "asc" THEN [dht EXCEPT !.asc = dht.table[k]]
              ELSE [dht EXCEPT !.desc = dht.table[k]]
    /\ dht' # dht
    /\ UNCHANGED last
    /\ UNCHANGED <<peerVars, queueVars, annVars, readerVars, writerVars,
                   announcerVars, discPc, histVars, held, net, simVars>>

\* The state writes the root of the time into the entry of the index k, in
\* place.
StateUpdateEntry(k) ==
    /\ k \in DOMAIN dht.table
    /\ dht' = [dht EXCEPT !.heap[dht.table[k]] =
                  [@ EXCEPT !.RootPublicKey = treeRoot.root,
                             !.RootSequence = treeRoot.seq]]
    /\ dht' # dht
    /\ UNCHANGED last
    /\ UNCHANGED <<peerVars, queueVars, annVars, readerVars, writerVars,
                   announcerVars, discPc, histVars, held, net, simVars>>

NextDHT ==
    \/ CallDHTInfo
    \/ CallPeers
    \/ \E k \in DHTIndices : StateInsert(k)
    \/ \E k \in DHTIndices : StateDelete(k)
    \/ \E slot \in {"asc", "desc"}, k \in DHTIndices : StateSetSlot(slot, k)
    \/ \E k \in DHTIndices : StateUpdateEntry(k)
    \/ \E r \in Roots : TreeChange(r)
    \/ Start(2, 3, NoInput)

SpecDHT == InitAnn /\ [][NextDHT]_vars

\* C15: the stale count DHTInfo returns is the number of the stale entries
\* of the table it returns, each counted once, and so is never more than
\* the number of the entries.
C15_StaleCountsStaleEntries ==
    last.op = "DHTInfo" =>
        LET r == held.dht[1]
        IN  /\ r.stale = Cardinality({k \in DOMAIN r.table : Stale(r.table[k], last.ann)})
            /\ r.stale <= Cardinality(DOMAIN r.table)

\* What a caller has in hand of the values it holds: the entries its two
\* pointers lead to, its copy of the table and its list of peers.
HeldValues ==
    LET Deref(ptr) == IF ptr = NilEntry THEN <<>> ELSE <<dht.heap[ptr]>>
    IN  [asc |-> Deref(held.dht[1].asc), desc |-> Deref(held.dht[1].desc),
         table |-> held.dht[1].table, peers |-> held.peers[1]]

\* C16: what DHTInfo and Peers have returned is the caller's own: no step of
\* the state changes a value a caller holds.
C16_ReturnedValuesOwned ==
    [][(held.dht # <<>> /\ held.peers # <<>> /\ held' = held)
          => HeldValues' = HeldValues]_vars

(***************************************************************************)
(* A network of three routers and the election of the root.  Each node     *)
(* holds the root announcement it has adopted (nil while it is its own     *)
(* root) and its parent; every directed link holds the announcements under *)
(* way and the last one that was sent on it.                               *)
(***************************************************************************)
\* The largest sequence number a root gives its announcement.
MaxSeq == 2

NetNodes == {1, 2, 3}

\* The connected networks of the three nodes, with the keys of the nodes:
\* a line with each of the keys in the middle, and a triangle.
NetConfigs ==
    LET Both(E) == E \cup {<<e[2], e[1]>> : e \in E}
        Line == Both({<<1, 2>>, <<2, 3>>})
        Triangle == Both({<<1, 2>>, <<2, 3>>, <<1, 3>>})
    IN  {<<Line, <<9, 5, 3>>>>, <<Line, <<9, 3, 5>>>>, <<Line, <<3, 9, 5>>>>,
         <<Triangle, <<9, 5, 3>>>>}

\* The nodes that give their announcement a new sequence while they are
\* their own root: on the line every node, in the triangle the greatest.
NetReannouncers == IF <<1, 3>> \in net.links THEN {1} ELSE NetNodes

\* The announcement of the node n: the one it has adopted, or its own.
NetRoot(n) ==
    IF net.root[n] = NoAnn THEN Ann(net.key[n], net.seq[n], <<>>) ELSE net.root[n]

\* Router.RootPublicKey of the node n.
RootPublicKey(n) == IF net.root[n] # NoAnn THEN net.root[n].root ELSE net.key[n]

\* Router.IsRoot of the node n.
IsRoot(n) == RootPublicKey(n) = net.key[n]

\* The announcement the node n sends to its neighbour m: its root
\* announcement with its own signature appended.
NetSigned(n, m) ==
    LET a == NetRoot(n) IN Ann(a.root, a.seq, Append(a.sigs, Sig(m, net.key[n])))

\* An election that takes every announcement that is not the one it has.
AdoptsAnyOther(a, root, seq) == a.root # root \/ a.seq > seq

\* Root election: the announcement a is adopted by a node whose root has the
\* key root and the sequence seq when its root key is greater, or is equal
\* with a greater sequence.
Adopts(a, root, seq) == a.root > root \/ (a.root = root /\ a.seq > seq)

NetUnchanged ==
    UNCHANGED <<peerVars, queueVars, annVars, readerVars, writerVars,
                announcerVars, discPc, histVars, last, dht, held, simVars>>

InitNet ==
    /\ InitBase
    /\ stream = [p \in Ports |-> <<>>]
    /\ input = [p \in Ports |-> NoInput]
    /\ readerPc = [p \in Ports |-> "off"]

\* The three routers are created and connected.
NetConnect(links, key) ==
    /\ net = NoNet
    /\ net' = [nodes |-> NetNodes, links |-> links, key |-> key,
               root |-> [n \in NetNodes |-> NoAnn],
               parent |-> [n \in NetNodes |-> 0],
               seq |-> [n \in NetNodes |-> 1],
               wire |-> [l \in links |-> <<>>],
               sent |-> [l \in links |-> NoAnn]]
    /\ NetUnchanged

\* The announcer of the node n for its peer m hands over the node's signed
\* root announcement; the link takes one announcement at a time.
NetAnnounce(n, m) ==
    /\ net # NoNet
    /\ <<n, m>> \in net.links
    /\ net.sent[<<n, m>>] # NetSigned(n, m)
    /\ net.wire[<<n, m>>] = <<>>
    /\ net' = [net EXCEPT !.wire[<<n, m>>] = <<NetSigned(n, m)>>,
                          !.sent[<<n, m>>] = NetSigned(n, m)]
    /\ NetUnchanged

\* The node m takes the announcement that has arrived from n: it drops an
\* announcement that carries its own signature, and adopts one that wins
\* the election, with n as its parent.
NetReceive(n, m) ==
    /\ net # NoNet
    /\ <<n, m>> \in net.links
    /\ net.wire[<<n, m>>] # <<>>
    /\ LET a == Head(net.wire[<<n, m>>])
           loop == \E i \in 1 .. Len(a.sigs) : a.sigs[i].key = net.key[m]
       IN  IF ~loop /\ Adopts(a, RootPublicKey(m), NetRoot(m).seq)
           THEN net' = [net EXCEPT !.wire[<<n, m>>] = Tail(@),
                                   !.root[m] = a, !.parent[m] = n]
           ELSE net' = [net EXCEPT !.wire[<<n, m>>] = Tail(@)]
    /\ NetUnchanged

\* A node that is its own root gives its announcement the next sequence.
NetReannounce(n) ==
    /\ net # NoNet
    /\ n \in NetReannouncers
    /\ net.root[n] = NoAnn
    /\ net.seq[n] < MaxSeq
    /\ net' = [net EXCEPT !.seq[n] = @ + 1]
    /\ NetUnchanged

NextNet ==
    \/ \E c \in NetConfigs : NetConnect(c[1], c[2])
    \/ \E n, m \in NetNodes : NetAnnounce(n, m)
    \/ \E n, m \in NetNodes : NetReceive(n, m)
    \/ \E n \in NetNodes : NetReannounce(n)

SpecNet == InitNet /\ [][NextNet]_vars

\* Steady state: no announcement is under way and every node has sent its
\* present announcement to each of its neighbours.
Steady ==
    /\ net # NoNet
    /\ \A l \in net.links : net.wire[l] = <<>> /\ net.sent[l] = NetSigned(l[1], l[2])

KeepaliveBytes ==
    FrameMagicBytes \o <<Version0, 0, 0, 0>> \o PutUint16(FrameLength(header_size))

WireInputs ==
    LET second == MarshalBinary([EmptyFrame(Version0, TypeTreeRouted) EXCEPT
                                    !.destination = <<200>>, !.payload = <<7>>])
        other == [EmptyFrame(Version0 + 1, TypeTreeRouted) EXCEPT !.payload = <<9>>]
    IN  {Input(<<>>, MarshalBinary(f), r) :
            f \in {g \in CodecFrames \cup {other} : g.payload = <<9>>},
            r \in {<<>>, KeepaliveBytes, second \o second \o KeepaliveBytes}}
        \cup {Input(<<>>, KeepaliveBytes, <<>>)}

InitWire ==
    /\ InitConnected
    /\ protoOut = [p \in Ports |-> <<>>]
    /\ trafficOut = [p \in Ports |-> <<>>]
    /\ \E inp \in WireInputs :
          /\ input = [p \in Ports |-> IF p = 1 THEN inp ELSE NoInput]
          /\ stream = [p \in Ports |-> IF p = 1 THEN inp.frame \o inp.rest ELSE <<>>]
    /\ readerPc = [p \in Ports |-> IF p = 1 THEN "top" ELSE "off"]

SpecWire == InitWire /\ [][NextReader]_vars

\* C20: the number of bytes the reader reads for a frame, computed from the
\* header it has peeked, is the length of the frame as the codec marshalled
\* it: at the start of the stream the reader reads exactly the first frame.
C20_ReaderReadsOneFrame ==
    \A p \in RemotePorts :
        (readerPc[p] = "read" /\ stream[p] = input[p].frame \o input[p].rest)
            => Expecting(SubSeq(stream[p], 1, 12)) = Len(input[p].frame)

====
